---- MODULE Spec2Model ----
(***************************************************************************)
(* NRF registry (NRFRegistry) and connection manager (ConnectionManager)   *)
(* of the 5G core simulation, as one state machine.                        *)
(*                                                                         *)
(* Time is Date.now() in milliseconds.  Every setTimeout / setInterval of  *)
(* the code is a timer with a deadline; a timer fires when the clock has   *)
(* reached its deadline and the clock never passes a pending deadline.     *)
(* Callbacks that are due at the same instant, and calls from outside,     *)
(* interleave in any order (single-threaded event loop).                   *)
(***************************************************************************)
EXTENDS Integers, Sequences, FiniteSets, TLC

VARIABLES
    now,                    \* Date.now()
    registry,               \* NRFRegistry.registry: Map in insertion order, a sequence of profiles
    registrationMessages,   \* NRFRegistry.registrationMessages: id -> latest record
    registrationHistory,    \* NRFRegistry.registrationHistory
    deregistrationMessages, \* NRFRegistry.deregistrationMessages
    deregistrationHistory,  \* NRFRegistry.deregistrationHistory
    isMonitoring,           \* NRFRegistry.isMonitoring
    monitorIntervalId,      \* NRFRegistry.monitorIntervalId: 0 is null, else the next sweep's deadline
    purgeTimers,            \* pending setTimeout(registry.delete) of deregisterNF
    advisoryTasks,          \* active setInterval of startDeregisteredNFMonitoring
    nfStore,                \* window.dataStore: ids of the NFs in the inventory
    nfView,                 \* per NF object: nrfStatus, status, heartbeatIntervalId
    connections,            \* window.dataStore connections, in insertion order
    connCount,              \* number of connection ids generated so far
    regTimers,              \* pending setTimeout(registerNF) of createConnection
    lastCall,               \* the last handler run and what it returned (observation only)
    calls                   \* number of calls made from outside so far

vars == <<now, registry, registrationMessages, registrationHistory,
          deregistrationMessages, deregistrationHistory, isMonitoring,
          monitorIntervalId, purgeTimers, advisoryTasks, nfStore, nfView,
          connections, connCount, regTimers, lastCall, calls>>

registryVars == <<registry, registrationMessages, registrationHistory,
                  deregistrationMessages, deregistrationHistory,
                  purgeTimers, advisoryTasks>>
monitorVars == <<isMonitoring, monitorIntervalId>>
linkVars == <<connections, connCount, regTimers>>

----------------------------------------------------------------------------
(* Program constants (milliseconds).                                       *)

heartbeatInterval == 60000
heartbeatTimeout == 120000
gracePeriod == 30000
sweepInterval == 10000
purgeDelay == 5000
advisoryInterval == 20000
registrationDelay == 1500
nfHeartbeatInterval == 60000

(* Bounds of the model.                                                    *)

MaxTime == 185000      \* the clock stops here
MaxCalls == 2          \* calls from outside in one behaviour
MaxLinks == 2          \* connection ids generated in one behaviour

(* The clock is observed at every deadline, and every TimeStep when no     *)
(* timer is pending before that.                                           *)
TimeStep == gracePeriod
StartTime == purgeDelay

----------------------------------------------------------------------------
(* The inventory (window.dataStore): the NF objects that exist.            *)

NFIds == {"nrf-1", "amf-1", "smf-1", "upf-1", "dn-1", "svc-1"}
UnknownId == "ghost"

NFType(id) ==
    CASE id = "nrf-1" -> "NRF"
      [] id = "amf-1" -> "AMF"
      [] id = "smf-1" -> "SMF"
      [] id = "upf-1" -> "UPF"
      [] id = "dn-1"  -> "ext-dn"
      [] OTHER        -> "Service"

NFIp(id) ==
    CASE id = "nrf-1" -> <<192, 168, 1, 2>>
      [] id = "amf-1" -> <<192, 168, 1, 5>>
      [] id = "smf-1" -> <<10, 0, 0, 9>>
      [] id = "upf-1" -> <<192, 168, 1, 7>>
      [] id = "dn-1"  -> <<192, 168, 1, 8>>
      [] OTHER        -> <<192, 168, 1, 10>>

NFName(id) == id

----------------------------------------------------------------------------
(* Connectivity policy: ConnectionManager's tables and pure lookups.       *)

ValidConnectionKeys ==
    {"NRF", "AMF", "SMF", "UPF", "AUSF", "UDM", "PCF", "NSSF", "UDR",
     "gNB", "UE", "MySQL", "ext-dn"}

\* A plausible slip: a type is entered in its own list.
validConnections_SelfListed(t) ==
    CASE t = "NRF"    -> <<"AMF", "SMF", "UPF", "AUSF", "UDM", "PCF", "NSSF", "UDR">>
      [] t = "AMF"    -> <<"NRF", "AMF", "SMF", "AUSF", "UDM", "PCF", "NSSF", "gNB", "UE">>
      [] t = "SMF"    -> <<"NRF", "AMF", "UPF", "PCF", "UDM", "UDR">>
      [] t = "UPF"    -> <<"NRF", "SMF", "gNB">>
      [] t = "AUSF"   -> <<"NRF", "AMF", "UDM">>
      [] t = "UDM"    -> <<"NRF", "AMF", "SMF", "AUSF", "PCF", "UDR">>
      [] t = "PCF"    -> <<"NRF", "AMF", "SMF", "UDM">>
      [] t = "NSSF"   -> <<"NRF", "AMF">>
      [] t = "UDR"    -> <<"NRF", "SMF", "UDM", "MySQL">>
      [] t = "gNB"    -> <<"AMF", "UPF", "UE">>
      [] t = "UE"     -> <<"gNB", "AMF">>
      [] t = "MySQL"  -> <<"UDR">>
      [] t = "ext-dn" -> <<"UPF">>
      [] OTHER        -> <<>>

\* this.validConnections[t], for t a key of the table
validConnections(t) ==
    CASE t = "NRF"    -> <<"AMF", "SMF", "UPF", "AUSF", "UDM", "PCF", "NSSF", "UDR">>
      [] t = "AMF"    -> <<"NRF", "SMF", "AUSF", "UDM", "PCF", "NSSF", "gNB", "UE">>
      [] t = "SMF"    -> <<"NRF", "AMF", "UPF", "PCF", "UDM", "UDR">>
      [] t = "UPF"    -> <<"NRF", "SMF", "gNB">>
      [] t = "AUSF"   -> <<"NRF", "AMF", "UDM">>
      [] t = "UDM"    -> <<"NRF", "AMF", "SMF", "AUSF", "PCF", "UDR">>
      [] t = "PCF"    -> <<"NRF", "AMF", "SMF", "UDM">>
      [] t = "NSSF"   -> <<"NRF", "AMF">>
      [] t = "UDR"    -> <<"NRF", "SMF", "UDM", "MySQL">>
      [] t = "gNB"    -> <<"AMF", "UPF", "UE">>
      [] t = "UE"     -> <<"gNB", "AMF">>
      [] t = "MySQL"  -> <<"UDR">>
      [] t = "ext-dn" -> <<"UPF">>
      [] OTHER        -> <<>>

\* Array.prototype.includes
Includes(list, x) == \E i \in 1..Len(list) : list[i] = x

\* A plausible slip: the reverse direction of the table is not consulted.
isConnectionValid_ForwardOnly(sourceType, targetType) ==
    /\ sourceType \in ValidConnectionKeys
    /\ Includes(validConnections(sourceType), targetType)

\* A plausible slip: a source type with no entry in the table is let through.
isConnectionValid_UnknownAdmitted(sourceType, targetType) ==
    IF sourceType \notin ValidConnectionKeys THEN TRUE
    ELSE IF Includes(validConnections(sourceType), targetType) THEN TRUE
    ELSE IF /\ targetType \in ValidConnectionKeys
            /\ Includes(validConnections(targetType), sourceType) THEN TRUE
    ELSE FALSE

isConnectionValid(sourceType, targetType) ==
    IF sourceType \notin ValidConnectionKeys THEN FALSE
    ELSE IF Includes(validConnections(sourceType), targetType) THEN TRUE
    ELSE IF /\ targetType \in ValidConnectionKeys
            /\ Includes(validConnections(targetType), sourceType) THEN TRUE
    ELSE FALSE

\* The interfaces table of getInterfaceName; the key `${a}-${b}` is the pair <<a, b>>.
\* A plausible slip: the N6 entries of the table are left out.
InterfaceKeys_WithoutN6 ==
    {<<"AMF", "NRF">>, <<"SMF", "NRF">>, <<"UPF", "NRF">>, <<"AUSF", "NRF">>,
     <<"UDM", "NRF">>, <<"PCF", "NRF">>, <<"NSSF", "NRF">>, <<"UDR", "NRF">>,
     <<"AMF", "SMF">>, <<"AMF", "AUSF">>, <<"AMF", "UDM">>, <<"AMF", "PCF">>,
     <<"AMF", "NSSF">>, <<"AMF", "UE">>, <<"SMF", "UPF">>, <<"SMF", "PCF">>,
     <<"SMF", "UDM">>, <<"SMF", "UDR">>, <<"AUSF", "UDM">>, <<"PCF", "UDM">>,
     <<"gNB", "AMF">>, <<"gNB", "UPF">>, <<"gNB", "UE">>, <<"UE", "gNB">>,
     <<"UE", "AMF">>, <<"UDM", "UDR">>, <<"UDR", "UDM">>, <<"UDR", "MySQL">>,
     <<"MySQL", "UDR">>}

InterfaceKeys ==
    {<<"AMF", "NRF">>, <<"SMF", "NRF">>, <<"UPF", "NRF">>, <<"AUSF", "NRF">>,
     <<"UDM", "NRF">>, <<"PCF", "NRF">>, <<"NSSF", "NRF">>, <<"UDR", "NRF">>,
     <<"AMF", "SMF">>, <<"AMF", "AUSF">>, <<"AMF", "UDM">>, <<"AMF", "PCF">>,
     <<"AMF", "NSSF">>, <<"AMF", "UE">>, <<"SMF", "UPF">>, <<"SMF", "PCF">>,
     <<"SMF", "UDM">>, <<"SMF", "UDR">>, <<"AUSF", "UDM">>, <<"PCF", "UDM">>,
     <<"gNB", "AMF">>, <<"gNB", "UPF">>, <<"gNB", "UE">>, <<"UE", "gNB">>,
     <<"UE", "AMF">>, <<"UDM", "UDR">>, <<"UDR", "UDM">>, <<"UDR", "MySQL">>,
     <<"MySQL", "UDR">>, <<"UPF", "ext-dn">>, <<"ext-dn", "UPF">>}

interfaces(key) ==
    CASE key = <<"SMF", "NRF">> -> "Nnrf_NFDiscovery"
      [] key \in {<<"AMF", "NRF">>, <<"UPF", "NRF">>, <<"AUSF", "NRF">>, <<"UDM", "NRF">>,
                  <<"PCF", "NRF">>, <<"NSSF", "NRF">>, <<"UDR", "NRF">>} -> "Nnrf_NFManagement"
      [] key = <<"AMF", "SMF">>  -> "Namf_Communication"
      [] key = <<"AMF", "AUSF">> -> "Nausf_UEAuthentication"
      [] key = <<"AMF", "UDM">>  -> "Nudm_UECM"
      [] key = <<"AMF", "PCF">>  -> "Npcf_AMPolicyControl"
      [] key = <<"AMF", "NSSF">> -> "Nnssf_NSSelection"
      [] key \in {<<"AMF", "UE">>, <<"UE", "AMF">>} -> "N1"
      [] key = <<"SMF", "UPF">>  -> "N4"
      [] key = <<"SMF", "PCF">>  -> "Npcf_SMPolicyControl"
      [] key = <<"SMF", "UDM">>  -> "Nudm_SDM"
      [] key = <<"SMF", "UDR">>  -> "Nudr_EventExposure"
      [] key = <<"AUSF", "UDM">> -> "Nudm_Authentication"
      [] key = <<"PCF", "UDM">>  -> "Nudm_PolicyControl"
      [] key = <<"gNB", "AMF">>  -> "N2"
      [] key = <<"gNB", "UPF">>  -> "N3"
      [] key \in {<<"gNB", "UE">>, <<"UE", "gNB">>} -> "Radio"
      [] key \in {<<"UDM", "UDR">>, <<"UDR", "UDM">>} -> "Nudr_DataRepository"
      [] key \in {<<"UDR", "MySQL">>, <<"MySQL", "UDR">>} -> "SQL/REST API"
      [] key \in {<<"UPF", "ext-dn">>, <<"ext-dn", "UPF">>} -> "N6"
      [] OTHER -> "SBI"

\* A plausible slip: the label is looked up for the given order of the pair only.
getInterfaceName_ForwardOnly(sourceType, targetType) ==
    IF <<sourceType, targetType>> \in InterfaceKeys
    THEN interfaces(<<sourceType, targetType>>)
    ELSE "SBI"

getInterfaceName(sourceType, targetType) ==
    IF <<sourceType, targetType>> \in InterfaceKeys
    THEN interfaces(<<sourceType, targetType>>)
    ELSE IF <<targetType, sourceType>> \in InterfaceKeys
    THEN interfaces(<<targetType, sourceType>>)
    ELSE "SBI"

\* An address is the sequence of its dot-separated parts (ip.split('.')).
getNetworkFromIP(ip) == SubSeq(ip, 1, 3)

\* Services of an NF type, each <<serviceName, serviceInstanceId>>.
getServicesForNF(nfType) ==
    CASE nfType = "AMF"  -> << <<"namf-comm", "namf-comm-v1">>, <<"namf-evts", "namf-evts-v1">> >>
      [] nfType = "SMF"  -> << <<"nsmf-pdusession", "nsmf-pdusession-v1">>,
                               <<"nsmf-event-exposure", "nsmf-event-exposure-v1">> >>
      [] nfType = "UPF"  -> << <<"nupf-pfcp", "nupf-pfcp-v1">> >>
      [] nfType = "AUSF" -> << <<"nausf-auth", "nausf-auth-v1">> >>
      [] nfType = "UDM"  -> << <<"nudm-sdm", "nudm-sdm-v1">>, <<"nudm-uecm", "nudm-uecm-v1">>,
                               <<"nudm-ueau", "nudm-ueau-v1">> >>
      [] nfType = "PCF"  -> << <<"npcf-am-policy-control", "npcf-am-policy-control-v1">>,
                               <<"npcf-smpolicycontrol", "npcf-smpolicycontrol-v1">> >>
      [] nfType = "NSSF" -> << <<"nnssf-nsselection", "nnssf-nsselection-v1">> >>
      [] nfType = "UDR"  -> << <<"nudr-dr", "nudr-dr-v1">> >>
      [] nfType = "NRF"  -> << <<"nnrf-nfm", "nnrf-nfm-v1">>, <<"nnrf-disc", "nnrf-disc-v1">> >>
      [] OTHER           -> << >>

----------------------------------------------------------------------------
(* Registry store: NRFRegistry.  A handler is a function from the registry *)
(* side of the state (a record S) and the time t of the call to the new S. *)

AllIds == NFIds \cup {UnknownId}

\* Map.has / Map.get / Map.set / Map.delete on the registry (insertion order kept)
Has(reg, id) == \E i \in 1..Len(reg) : reg[i].nfInstanceId = id
Get(reg, id) == reg[CHOOSE i \in 1..Len(reg) : reg[i].nfInstanceId = id]
MapSet(reg, id, p) ==
    IF Has(reg, id)
    THEN [i \in 1..Len(reg) |-> IF reg[i].nfInstanceId = id THEN p ELSE reg[i]]
    ELSE Append(reg, p)
MapDelete(reg, id) == SelectSeq(reg, LAMBDA p : p.nfInstanceId # id)

\* A name given by the caller, and the default `${nfType}-${id.slice(-6)}`.
GivenName(n) == <<n>>
DefaultName(nfType, id) == <<nfType, "-", id>>

State ==
    [registry |-> registry,
     registrationMessages |-> registrationMessages,
     registrationHistory |-> registrationHistory,
     deregistrationMessages |-> deregistrationMessages,
     deregistrationHistory |-> deregistrationHistory,
     purgeTimers |-> purgeTimers,
     advisoryTasks |-> advisoryTasks,
     nfView |-> nfView]

\* window.dataStore.updateNF(id, {nrfStatus: st}) when the NF object exists
SetNrfStatus(view, store, id, st) ==
    IF id \in store THEN [view EXCEPT ![id].nrfStatus = st] ELSE view

\* A plausible slip: the existing profile's registeredAt is not kept.
\* { computed, ...nfProfile }: a field the input has of its own replaces the computed one;
\* own is << >> when the input has no such field and <<v>> when it has it with value v.
Merged(own, computed) == IF own # << >> THEN own[1] ELSE computed

registerNF_FreshRegisteredAt(S, t, id, input, store) ==
    LET profile == [nfInstanceId |-> id, nfType |-> input.nfType,
                    nfName |-> IF input.nfName # "" THEN GivenName(input.nfName)
                               ELSE DefaultName(input.nfType, id),
                    nfStatus |-> Merged(input.ownStatus, "REGISTERED"), registeredAt |-> t,
                    lastHeartbeat |-> Merged(input.ownLastHeartbeat, t),
                    statusChangedAt |-> Merged(input.ownStatusChangedAt, t),
                    hasServices |-> input.hasServices, services |-> input.services,
                    deregisteredAt |-> 0, deregistrationReason |-> "",
                    deregisteredMonitorIntervalId |-> 0,
                    oid |-> Len(S.registrationHistory) + 1]
        rec == [nfInstanceId |-> id, nfType |-> input.nfType,
                nfName |-> profile.nfName, timestamp |-> t]
    IN [S EXCEPT !.registry = MapSet(S.registry, id, profile),
                 !.nfView = SetNrfStatus(S.nfView, store, id, "REGISTERED"),
                 !.registrationMessages = [S.registrationMessages EXCEPT ![id] = <<rec>>],
                 !.registrationHistory = Append(S.registrationHistory, rec)]

\* A plausible slip: a registration of an id that has a profile is taken for an update
\* and is not pushed to the history.
registerNF_HistoryOnlyFirst(S, t, id, input, store) ==
    LET existing == IF Has(S.registry, id) THEN <<Get(S.registry, id)>> ELSE <<>>
        profile == [nfInstanceId |-> id, nfType |-> input.nfType,
                    nfName |-> IF input.nfName # "" THEN GivenName(input.nfName)
                               ELSE DefaultName(input.nfType, id),
                    \* ...nfProfile comes last and wins over the computed fields
                    nfStatus |-> Merged(input.ownStatus, "REGISTERED"),
                    registeredAt |-> IF existing # <<>> /\ existing[1].registeredAt # 0
                                     THEN existing[1].registeredAt ELSE t,
                    lastHeartbeat |-> Merged(input.ownLastHeartbeat, t),
                    statusChangedAt |-> Merged(input.ownStatusChangedAt, t),
                    hasServices |-> input.hasServices, services |-> input.services,
                    deregisteredAt |-> 0, deregistrationReason |-> "",
                    deregisteredMonitorIntervalId |-> 0,
                    oid |-> Len(S.registrationHistory) + 1]
        rec == [nfInstanceId |-> id, nfType |-> input.nfType,
                nfName |-> profile.nfName, timestamp |-> t]
    IN [S EXCEPT !.registry = MapSet(S.registry, id, profile),
                 !.nfView = SetNrfStatus(S.nfView, store, id, "REGISTERED"),
                 !.registrationMessages = [S.registrationMessages EXCEPT ![id] = <<rec>>],
                 !.registrationHistory = IF existing # <<>> THEN S.registrationHistory
                                         ELSE Append(S.registrationHistory, rec)]

registerNF_KeepsStatus(S, t, id, input, store) ==
    LET existing == IF Has(S.registry, id) THEN <<Get(S.registry, id)>> ELSE <<>>
        profile == [nfInstanceId |-> id, nfType |-> input.nfType,
                    nfName |-> IF input.nfName # "" THEN GivenName(input.nfName)
                               ELSE DefaultName(input.nfType, id),
                    \* ...nfProfile comes last and wins over the computed fields
                    nfStatus |-> IF existing # <<>> THEN existing[1].nfStatus
                                ELSE Merged(input.ownStatus, "REGISTERED"),
                    \* existingProfile?.registeredAt || now
                    registeredAt |-> IF existing # <<>> /\ existing[1].registeredAt # 0
                                     THEN existing[1].registeredAt ELSE t,
                    lastHeartbeat |-> Merged(input.ownLastHeartbeat, t),
                    statusChangedAt |-> Merged(input.ownStatusChangedAt, t),
                    hasServices |-> input.hasServices, services |-> input.services,
                    deregisteredAt |-> 0, deregistrationReason |-> "",
                    deregisteredMonitorIntervalId |-> 0,
                    \* the identity of this new profile object
                    oid |-> Len(S.registrationHistory) + 1]
        rec == [nfInstanceId |-> id, nfType |-> input.nfType,
                nfName |-> profile.nfName, timestamp |-> t]
    IN [S EXCEPT !.registry = MapSet(S.registry, id, profile),
                 !.nfView = SetNrfStatus(S.nfView, store, id, "REGISTERED"),
                 !.registrationMessages = [S.registrationMessages EXCEPT ![id] = <<rec>>],
                 !.registrationHistory = Append(S.registrationHistory, rec)]

\* What registerNF returns.
registerNF(S, t, id, input, store) ==
    LET existing == IF Has(S.registry, id) THEN <<Get(S.registry, id)>> ELSE <<>>
        profile == [nfInstanceId |-> id, nfType |-> input.nfType,
                    nfName |-> IF input.nfName # "" THEN GivenName(input.nfName)
                               ELSE DefaultName(input.nfType, id),
                    \* ...nfProfile comes last and wins over the computed fields
                    nfStatus |-> Merged(input.ownStatus, "REGISTERED"),
                    \* existingProfile?.registeredAt || now
                    registeredAt |-> IF existing # <<>> /\ existing[1].registeredAt # 0
                                     THEN existing[1].registeredAt ELSE t,
                    lastHeartbeat |-> Merged(input.ownLastHeartbeat, t),
                    statusChangedAt |-> Merged(input.ownStatusChangedAt, t),
                    hasServices |-> input.hasServices, services |-> input.services,
                    deregisteredAt |-> 0, deregistrationReason |-> "",
                    deregisteredMonitorIntervalId |-> 0,
                    \* the identity of this new profile object
                    oid |-> Len(S.registrationHistory) + 1]
        rec == [nfInstanceId |-> id, nfType |-> input.nfType,
                nfName |-> profile.nfName, timestamp |-> t]
    IN [S EXCEPT !.registry = MapSet(S.registry, id, profile),
                 !.nfView = SetNrfStatus(S.nfView, store, id, "REGISTERED"),
                 !.registrationMessages = [S.registrationMessages EXCEPT ![id] = <<rec>>],
                 !.registrationHistory = Append(S.registrationHistory, rec)]

\* What registerNF returns.
registerNFResponse(id) ==
    [nfInstanceId |-> id, nfStatus |-> "REGISTERED", validity |-> 3600,
     heartbeatTimer |-> heartbeatInterval]

\* A plausible slip: the renewal stamps lastHeartbeat but does not restore REGISTERED.
updateHeartbeat_NoRestore(S, t, id, store) ==
    IF ~Has(S.registry, id) THEN S
    ELSE [S EXCEPT !.registry =
             MapSet(S.registry, id, [Get(S.registry, id) EXCEPT !.lastHeartbeat = t])]

\* A plausible slip: the renewal restores every profile that is not REGISTERED.
updateHeartbeat_RestoresRemoved(S, t, id, store) ==
    IF ~Has(S.registry, id) THEN S
    ELSE LET p == Get(S.registry, id) IN
         IF p.nfStatus # "REGISTERED"
         THEN [S EXCEPT !.registry = MapSet(S.registry, id,
                              [p EXCEPT !.lastHeartbeat = t, !.nfStatus = "REGISTERED",
                                        !.statusChangedAt = t]),
                        !.nfView = SetNrfStatus(S.nfView, store, id, "REGISTERED")]
         ELSE [S EXCEPT !.registry = MapSet(S.registry, id, [p EXCEPT !.lastHeartbeat = t])]

updateHeartbeat(S, t, id, store) ==
    IF ~Has(S.registry, id) THEN S
    ELSE LET p == Get(S.registry, id) IN
         IF p.nfStatus = "UNAVAILABLE"
         THEN [S EXCEPT !.registry = MapSet(S.registry, id,
                              [p EXCEPT !.lastHeartbeat = t, !.nfStatus = "REGISTERED",
                                        !.statusChangedAt = t]),
                        !.nfView = SetNrfStatus(S.nfView, store, id, "REGISTERED")]
         ELSE [S EXCEPT !.registry = MapSet(S.registry, id, [p EXCEPT !.lastHeartbeat = t])]

\* What updateHeartbeat returns.
updateHeartbeatResult(S, id) == Has(S.registry, id)

\* A plausible slip: the status filter lets every profile through.
discoverNFs_NoStatusFilter(reg, query) ==
    SelectSeq(reg, LAMBDA p :
        /\ ~(query.nfType # "" /\ p.nfType # query.nfType)
        /\ ~(query.service # "" /\ p.hasServices
             /\ ~\E i \in 1..Len(p.services) :
                    p.services[i][2] = query.service \/ p.services[i][1] = query.service))

\* A plausible slip: the type filter is not applied.
discoverNFs_NoTypeFilter(reg, query) ==
    SelectSeq(reg, LAMBDA p :
        /\ p.nfStatus = "REGISTERED"
        /\ ~(query.service # "" /\ p.hasServices
             /\ ~\E i \in 1..Len(p.services) :
                    p.services[i][2] = query.service \/ p.services[i][1] = query.service))

\* query.nfType / query.service: "" is the absent (falsy) value.
discoverNFs(reg, query) ==
    SelectSeq(reg, LAMBDA p :
        /\ p.nfStatus = "REGISTERED"
        /\ ~(query.nfType # "" /\ p.nfType # query.nfType)
        /\ ~(query.service # "" /\ p.hasServices
             /\ ~\E i \in 1..Len(p.services) :
                    p.services[i][2] = query.service \/ p.services[i][1] = query.service))

startDeregisteredNFMonitoring(S, t, id, store) ==
    IF id \notin store THEN S
    ELSE LET p == Get(S.registry, id) IN
         IF p.deregisteredMonitorIntervalId = 0
         THEN [S EXCEPT !.registry = MapSet(S.registry, id,
                              [p EXCEPT !.deregisteredMonitorIntervalId = 1]),
                        !.advisoryTasks = S.advisoryTasks \cup
                              {[nfInstanceId |-> id, oid |-> p.oid,
                                deadline |-> t + advisoryInterval]}]
         ELSE S

\* A plausible slip: the record is pushed to the history before the profile is looked up.
deregisterNF_RecordsUnknown(S, t, id, reason, store) ==
    IF ~Has(S.registry, id)
    THEN [S EXCEPT !.deregistrationHistory =
             Append(S.deregistrationHistory,
                    [nfInstanceId |-> id, nfType |-> "", nfName |-> <<>>,
                     timestamp |-> t, reason |-> reason])]
    ELSE LET p == [Get(S.registry, id) EXCEPT !.nfStatus = "REMOVED", !.statusChangedAt = t,
                                              !.deregisteredAt = t,
                                              !.deregistrationReason = reason]
             rec == [nfInstanceId |-> id, nfType |-> p.nfType, nfName |-> p.nfName,
                     timestamp |-> t, reason |-> reason]
             view == IF id \in store
                     THEN [S.nfView EXCEPT ![id].nrfStatus = "REMOVED",
                                           ![id].status = "unstable"]
                     ELSE S.nfView
             S1 == [S EXCEPT !.registry = MapSet(S.registry, id, p),
                             !.nfView = view,
                             !.deregistrationMessages =
                                 [S.deregistrationMessages EXCEPT ![id] = <<rec>>],
                             !.deregistrationHistory = Append(S.deregistrationHistory, rec)]
             S2 == startDeregisteredNFMonitoring(S1, t, id, store)
         IN [S2 EXCEPT !.purgeTimers = S2.purgeTimers \cup
                                          {[nfInstanceId |-> id, deadline |-> t + purgeDelay]}]

deregisterNF(S, t, id, reason, store) ==
    IF ~Has(S.registry, id) THEN S
    ELSE LET p == [Get(S.registry, id) EXCEPT !.nfStatus = "REMOVED", !.statusChangedAt = t,
                                              !.deregisteredAt = t,
                                              !.deregistrationReason = reason]
             rec == [nfInstanceId |-> id, nfType |-> p.nfType, nfName |-> p.nfName,
                     timestamp |-> t, reason |-> reason]
             view == IF id \in store
                     THEN [S.nfView EXCEPT ![id].nrfStatus = "REMOVED",
                                           ![id].status = "unstable"]
                     ELSE S.nfView
             S1 == [S EXCEPT !.registry = MapSet(S.registry, id, p),
                             !.nfView = view,
                             !.deregistrationMessages =
                                 [S.deregistrationMessages EXCEPT ![id] = <<rec>>],
                             !.deregistrationHistory = Append(S.deregistrationHistory, rec)]
             S2 == startDeregisteredNFMonitoring(S1, t, id, store)
         IN [S2 EXCEPT !.purgeTimers = S2.purgeTimers \cup
                                          {[nfInstanceId |-> id, deadline |-> t + purgeDelay]}]

\* The monitor fields of the registry: isMonitoring and the id of the sweep interval
\* (held as the time of its next pass; 0 is null).
Monitor == [isMonitoring |-> isMonitoring, monitorIntervalId |-> monitorIntervalId]

\* A plausible slip: the monitor is started without looking at isMonitoring.
startHeartbeatMonitor_NoGuard(M, t) ==
    [isMonitoring |-> TRUE, monitorIntervalId |-> t + sweepInterval]

startHeartbeatMonitor(M, t) ==
    IF M.isMonitoring THEN M
    ELSE [isMonitoring |-> TRUE, monitorIntervalId |-> t + sweepInterval]

stopHeartbeatMonitor(M) ==
    IF M.monitorIntervalId # 0
    THEN [isMonitoring |-> FALSE, monitorIntervalId |-> 0]
    ELSE M

\* profile.lastHeartbeat || profile.registeredAt
LastHeartbeatOf(p) == IF p.lastHeartbeat # 0 THEN p.lastHeartbeat ELSE p.registeredAt

\* A plausible slip: an UNAVAILABLE profile is collected without waiting for the grace
\* period.
SweepCollects_NoGrace(p, t) ==
    /\ t - LastHeartbeatOf(p) > heartbeatTimeout
    /\ p.nfStatus = "UNAVAILABLE"

\* The forEach callback of the sweep on one profile: whether it pushes it to toRemove.
SweepCollects(p, t) ==
    /\ t - LastHeartbeatOf(p) > heartbeatTimeout
    /\ p.nfStatus = "UNAVAILABLE"
    /\ t - p.statusChangedAt > gracePeriod

\* A plausible slip: the callback removes the profile itself instead of collecting it.
SweepProfile_RemovesInScan(p, t) ==
    IF t - LastHeartbeatOf(p) > heartbeatTimeout /\ p.nfStatus = "REGISTERED"
    THEN [p EXCEPT !.nfStatus = "UNAVAILABLE", !.statusChangedAt = t]
    ELSE IF SweepCollects(p, t)
    THEN [p EXCEPT !.nfStatus = "REMOVED", !.statusChangedAt = t]
    ELSE p

\* A plausible slip: the comparison with the timeout is not strict.
SweepProfile_AtTimeout(p, t) ==
    IF t - LastHeartbeatOf(p) >= heartbeatTimeout /\ p.nfStatus = "REGISTERED"
    THEN [p EXCEPT !.nfStatus = "UNAVAILABLE", !.statusChangedAt = t]
    ELSE p

\* The forEach callback of the sweep on one profile: the profile it leaves.
SweepProfile(p, t) ==
    IF t - LastHeartbeatOf(p) > heartbeatTimeout /\ p.nfStatus = "REGISTERED"
    THEN [p EXCEPT !.nfStatus = "UNAVAILABLE", !.statusChangedAt = t]
    ELSE p

RECURSIVE DeregisterEach(_, _, _, _, _)
\* toRemove.forEach(id => this.deregisterNF(id, reason))
DeregisterEach(S, t, ids, reason, store) ==
    IF ids = <<>> THEN S
    ELSE DeregisterEach(deregisterNF(S, t, Head(ids), reason, store), t, Tail(ids),
                        reason, store)

\* A plausible slip: the grace period is counted from the heartbeat timeout
\* (last renewal + timeout) instead of from the status change.
checkHeartbeatTimeouts_GraceFromTimeout(S, t, store) ==
    LET reg == S.registry
        collected == SelectSeq(reg, LAMBDA p :
                        /\ p.nfStatus = "UNAVAILABLE"
                        /\ t - LastHeartbeatOf(p) > heartbeatTimeout + gracePeriod)
        toRemove == [i \in 1..Len(collected) |-> collected[i].nfInstanceId]
        scanned == [i \in 1..Len(reg) |-> SweepProfile(reg[i], t)]
        S1 == [S EXCEPT !.registry = scanned]
    IN DeregisterEach(S1, t, toRemove, "AUTOMATIC_HEARTBEAT_TIMEOUT", store)

\* A plausible slip: an expired profile is marked UNAVAILABLE unless it already is,
\* whatever its status (REMOVED included).
checkHeartbeatTimeouts_MarksRemoved(S, t, store) ==
    LET reg == S.registry
        collected == SelectSeq(reg, LAMBDA p : SweepCollects(p, t))
        toRemove == [i \in 1..Len(collected) |-> collected[i].nfInstanceId]
        scanned == [i \in 1..Len(reg) |->
                       IF /\ t - LastHeartbeatOf(reg[i]) > heartbeatTimeout
                          /\ reg[i].nfStatus # "UNAVAILABLE"
                       THEN [reg[i] EXCEPT !.nfStatus = "UNAVAILABLE", !.statusChangedAt = t]
                       ELSE reg[i]]
        S1 == [S EXCEPT !.registry = scanned]
    IN DeregisterEach(S1, t, toRemove, "AUTOMATIC_HEARTBEAT_TIMEOUT", store)

checkHeartbeatTimeouts(S, t, store) ==
    LET reg == S.registry
        \* a profile is pushed to toRemove only in the else-branch: it was UNAVAILABLE
        \* before the callback ran on it
        collected == SelectSeq(reg, LAMBDA p : SweepCollects(p, t))
        toRemove == [i \in 1..Len(collected) |-> collected[i].nfInstanceId]
        scanned == [i \in 1..Len(reg) |-> SweepProfile(reg[i], t)]
        marked == {reg[i].nfInstanceId : i \in {j \in 1..Len(reg) : scanned[j] # reg[j]}}
        S1 == [S EXCEPT !.registry = scanned,
                        !.nfView = [id \in DOMAIN S.nfView |->
                                       IF id \in marked /\ id \in store
                                       THEN [S.nfView[id] EXCEPT !.nrfStatus = "UNAVAILABLE"]
                                       ELSE S.nfView[id]]]
    IN DeregisterEach(S1, t, toRemove, "AUTOMATIC_HEARTBEAT_TIMEOUT", store)

----------------------------------------------------------------------------
(* Timers.                                                                 *)

Deadlines ==
    (IF monitorIntervalId # 0 THEN {monitorIntervalId} ELSE {})
    \cup {x.deadline : x \in purgeTimers}
    \cup {x.deadline : x \in advisoryTasks}
    \cup {x.deadline : x \in regTimers}
    \cup {nfView[id].hbDeadline : id \in {i \in NFIds : nfView[i].hbDeadline # 0}}

\* The next instant the clock shows: the earliest pending deadline, or one step on.
NextInstant ==
    IF \E d \in Deadlines : d < now + TimeStep
    THEN CHOOSE d \in Deadlines : \A e \in Deadlines : d <= e
    ELSE now + TimeStep

\* The new values of the registry side of the state.
Apply(S) ==
    /\ registry' = S.registry
    /\ registrationMessages' = S.registrationMessages
    /\ registrationHistory' = S.registrationHistory
    /\ deregistrationMessages' = S.deregistrationMessages
    /\ deregistrationHistory' = S.deregistrationHistory
    /\ purgeTimers' = S.purgeTimers
    /\ advisoryTasks' = S.advisoryTasks
    /\ nfView' = S.nfView

Call(op, a, b, result) == [op |-> op, a |-> a, b |-> b, result |-> result]

----------------------------------------------------------------------------
(* Connection coordinator: ConnectionManager.                              *)

IsNRF(id) == NFType(id) = "NRF"

\* The order in which the inventory lists its NFs.
NFOrder == <<"nrf-1", "amf-1", "smf-1", "upf-1", "dn-1", "svc-1">>

\* window.dataStore.getAllNFs()
getAllNFs(store) == SelectSeq(NFOrder, LAMBDA id : id \in store)

getValidTargets(nfId, store) ==
    IF nfId \notin store THEN << >>
    ELSE SelectSeq(getAllNFs(store),
                   LAMBDA nf : nf # nfId /\ isConnectionValid(NFType(nfId), NFType(nf)))

\* A plausible slip: the subnet of the target is not compared.
getValidTargetsInSameSubnet_AnySubnet(nfId, store) ==
    IF nfId \notin store THEN << >>
    ELSE SelectSeq(getAllNFs(store),
                   LAMBDA nf : nf # nfId /\ isConnectionValid(NFType(nfId), NFType(nf)))

getValidTargetsInSameSubnet(nfId, store) ==
    IF nfId \notin store THEN << >>
    ELSE SelectSeq(getAllNFs(store),
                   LAMBDA nf : /\ nf # nfId
                               /\ isConnectionValid(NFType(nfId), NFType(nf))
                               /\ getNetworkFromIP(NFIp(nf)) = getNetworkFromIP(NFIp(nfId)))

\* The profile createConnection builds for the NF object it captured.
AutoProfile(id) ==
    [nfType |-> NFType(id), nfName |-> NFName(id), hasServices |-> TRUE,
     services |-> getServicesForNF(NFType(id)),
     ownStatus |-> << >>, ownLastHeartbeat |-> << >>, ownStatusChangedAt |-> << >>]

\* dataStore.getConnectionsForNF(nfId).find(conn => the other end is an NRF in the store)
HasNrfConnection(conns, id, store) ==
    \E i \in 1..Len(conns) :
        /\ conns[i].sourceId = id \/ conns[i].targetId = id
        /\ LET other == IF conns[i].sourceId = id THEN conns[i].targetId
                        ELSE conns[i].sourceId
           IN other \in store /\ IsNRF(other)

\* A plausible slip: the check for a heartbeat already started is left out.
startNFHeartbeat_NoGuard(S, t, id, store, conns) ==
    IF id \notin store \/ IsNRF(id) THEN S
    ELSE IF ~HasNrfConnection(conns, id, store) THEN S
    ELSE updateHeartbeat([S EXCEPT !.nfView[id].heartbeatIntervalId = 1,
                                   !.nfView[id].hbDeadline = t + nfHeartbeatInterval],
                         t, id, store)

startNFHeartbeat(S, t, id, store, conns) ==
    IF id \notin store \/ IsNRF(id) THEN S
    ELSE IF S.nfView[id].heartbeatIntervalId # 0 THEN S
    ELSE IF ~HasNrfConnection(conns, id, store) THEN S
    ELSE updateHeartbeat([S EXCEPT !.nfView[id].heartbeatIntervalId = 1,
                                   !.nfView[id].hbDeadline = t + nfHeartbeatInterval],
                         t, id, store)

\* A plausible slip: the interval is cleared but the NF keeps its id.
stopNFHeartbeat_KeepsId(S, id, store) ==
    IF id \in store /\ S.nfView[id].heartbeatIntervalId # 0
    THEN [S EXCEPT !.nfView[id].hbDeadline = 0]
    ELSE S

stopNFHeartbeat(S, id, store) ==
    IF id \in store /\ S.nfView[id].heartbeatIntervalId # 0
    THEN [S EXCEPT !.nfView[id].heartbeatIntervalId = 0, !.nfView[id].hbDeadline = 0]
    ELSE S

\* A plausible slip: the compatibility check is left out.
Rejection_NoTypeCheck(sourceId, targetId, store) ==
    IF sourceId \notin store \/ targetId \notin store THEN "invalid-ids"
    ELSE IF sourceId = targetId THEN "self"
    ELSE IF getNetworkFromIP(NFIp(sourceId)) # getNetworkFromIP(NFIp(targetId)) THEN "subnet"
    ELSE ""

\* A plausible slip: the subnet check is left out.
Rejection_NoSubnetCheck(sourceId, targetId, store) ==
    IF sourceId \notin store \/ targetId \notin store THEN "invalid-ids"
    ELSE IF sourceId = targetId THEN "self"
    ELSE IF ~isConnectionValid(NFType(sourceId), NFType(targetId)) THEN "types"
    ELSE ""

\* A plausible slip: the compatibility check is made before the subnet check.
Rejection_TypesBeforeSubnet(sourceId, targetId, store) ==
    IF sourceId \notin store \/ targetId \notin store THEN "invalid-ids"
    ELSE IF sourceId = targetId THEN "self"
    ELSE IF ~isConnectionValid(NFType(sourceId), NFType(targetId)) THEN "types"
    ELSE IF getNetworkFromIP(NFIp(sourceId)) # getNetworkFromIP(NFIp(targetId)) THEN "subnet"
    ELSE ""

\* The checks of createConnection, in order: "" when the link is admitted, else
\* the reason of the first check that fails.
Rejection(sourceId, targetId, store) ==
    IF sourceId \notin store \/ targetId \notin store THEN "invalid-ids"
    ELSE IF sourceId = targetId THEN "self"
    ELSE IF getNetworkFromIP(NFIp(sourceId)) # getNetworkFromIP(NFIp(targetId)) THEN "subnet"
    ELSE IF ~isConnectionValid(NFType(sourceId), NFType(targetId)) THEN "types"
    ELSE ""

\* A plausible slip: the second branch, copied from the first, still names the source.
RegistrationPeer_SourceOnly(sourceId, targetId) ==
    IF IsNRF(targetId) /\ ~IsNRF(sourceId) THEN <<sourceId>>
    ELSE IF IsNRF(sourceId) /\ ~IsNRF(targetId) THEN <<sourceId>>
    ELSE << >>

\* A plausible slip: the first branch names the NRF end instead of the other end.
RegistrationPeer_NrfEnd(sourceId, targetId) ==
    IF IsNRF(targetId) /\ ~IsNRF(sourceId) THEN <<targetId>>
    ELSE IF IsNRF(sourceId) /\ ~IsNRF(targetId) THEN <<targetId>>
    ELSE << >>

\* The NF that a link between sourceId and targetId registers or deregisters:
\* <<id>>, or << >> when neither branch of the if / else-if is taken.
RegistrationPeer(sourceId, targetId) ==
    IF IsNRF(targetId) /\ ~IsNRF(sourceId) THEN <<sourceId>>
    ELSE IF IsNRF(sourceId) /\ ~IsNRF(targetId) THEN <<targetId>>
    ELSE << >>

----------------------------------------------------------------------------
(* Initial states.                                                         *)

InitCommon ==
    /\ now = StartTime
    /\ registry = << >>
    /\ registrationMessages = [id \in AllIds |-> << >>]
    /\ registrationHistory = << >>
    /\ deregistrationMessages = [id \in AllIds |-> << >>]
    /\ deregistrationHistory = << >>
    /\ purgeTimers = {}
    /\ advisoryTasks = {}
    /\ nfStore = NFIds
    /\ nfView = [id \in NFIds |-> [nrfStatus |-> "", status |-> "stable",
                                   heartbeatIntervalId |-> 0, hbDeadline |-> 0]]
    /\ connections = << >>
    /\ connCount = 0
    /\ regTimers = {}
    /\ lastCall = Call("new", "", "", "")
    /\ calls = 0

\* After new NRFRegistry() and new ConnectionManager().
Init ==
    /\ InitCommon
    /\ isMonitoring = FALSE
    /\ monitorIntervalId = 0

\* After new NRFRegistry() and startHeartbeatMonitor().
InitMonitoring ==
    /\ InitCommon
    /\ isMonitoring = TRUE
    /\ monitorIntervalId = StartTime + sweepInterval

\* A time before the clock's first value, at which earlier calls were made.
PastTime == StartTime - registrationDelay

\* After new NRFRegistry(), startHeartbeatMonitor(), and registerNF and deregisterNF of
\* amf-1 at PastTime: the profile is REMOVED and its purge timer is pending.
InitDeregistered ==
    LET S0 == [registry |-> << >>,
               registrationMessages |-> [id \in AllIds |-> << >>],
               registrationHistory |-> << >>,
               deregistrationMessages |-> [id \in AllIds |-> << >>],
               deregistrationHistory |-> << >>,
               purgeTimers |-> {},
               advisoryTasks |-> {},
               nfView |-> [id \in NFIds |-> [nrfStatus |-> "", status |-> "stable",
                                             heartbeatIntervalId |-> 0, hbDeadline |-> 0]]]
        S1 == registerNF(S0, PastTime, "amf-1", AutoProfile("amf-1"), NFIds)
        S2 == deregisterNF(S1, PastTime, "amf-1", "MANUAL", NFIds)
    IN /\ now = StartTime
       /\ registry = S2.registry
       /\ registrationMessages = S2.registrationMessages
       /\ registrationHistory = S2.registrationHistory
       /\ deregistrationMessages = S2.deregistrationMessages
       /\ deregistrationHistory = S2.deregistrationHistory
       /\ purgeTimers = S2.purgeTimers
       /\ advisoryTasks = S2.advisoryTasks
       /\ nfView = S2.nfView
       /\ nfStore = NFIds
       /\ connections = << >>
       /\ connCount = 0
       /\ regTimers = {}
       /\ isMonitoring = TRUE
       /\ monitorIntervalId = StartTime + sweepInterval
       /\ lastCall = Call("deregisterNF", "amf-1", "MANUAL", "")
       /\ calls = 0

\* The connection createConnection("amf-1", "nrf-1") stored at PastTime under id n.
PastLink(n) ==
    [id |-> n, sourceId |-> "amf-1", targetId |-> "nrf-1",
     interfaceName |-> getInterfaceName(NFType("amf-1"), NFType("nrf-1")),
     createdAt |-> PastTime, isManual |-> TRUE]

\* After new NRFRegistry(), new ConnectionManager() and two calls of
\* createConnection("amf-1", "nrf-1") at PastTime: amf-1 has two connections to the NRF
\* and its delayed registration is due.
InitLinked ==
    /\ now = StartTime
    /\ registry = << >>
    /\ registrationMessages = [id \in AllIds |-> << >>]
    /\ registrationHistory = << >>
    /\ deregistrationMessages = [id \in AllIds |-> << >>]
    /\ deregistrationHistory = << >>
    /\ purgeTimers = {}
    /\ advisoryTasks = {}
    /\ nfStore = NFIds
    /\ nfView = [id \in NFIds |-> [nrfStatus |-> "", status |-> "stable",
                                   heartbeatIntervalId |-> 0, hbDeadline |-> 0]]
    /\ connections = <<PastLink(1), PastLink(2)>>
    /\ connCount = 2
    /\ regTimers = {[nfId |-> "amf-1", deadline |-> PastTime + registrationDelay]}
    /\ isMonitoring = FALSE
    /\ monitorIntervalId = 0
    /\ lastCall = Call("createConnection", "amf-1", "nrf-1", "connection")
    /\ calls = 0

----------------------------------------------------------------------------
(* Calls from outside.                                                     *)

\* Profiles that callers of registerNF supply.
ProfileInputs ==
    {[nfType |-> "AMF", nfName |-> "", hasServices |-> TRUE,
      services |-> getServicesForNF("AMF"),
      ownStatus |-> << >>, ownLastHeartbeat |-> << >>, ownStatusChangedAt |-> << >>],
     [nfType |-> "SMF", nfName |-> "smf-b", hasServices |-> FALSE, services |-> << >>,
      ownStatus |-> << >>, ownLastHeartbeat |-> << >>, ownStatusChangedAt |-> << >>]}

\* Profile inputs that carry fields registerNF computes: a status of their own, or
\* heartbeat and status-change times of their own.
MergingInputs ==
    {[nfType |-> "AMF", nfName |-> "", hasServices |-> TRUE,
      services |-> getServicesForNF("AMF"),
      ownStatus |-> <<"SUSPENDED">>, ownLastHeartbeat |-> << >>,
      ownStatusChangedAt |-> << >>],
     [nfType |-> "AMF", nfName |-> "", hasServices |-> TRUE,
      services |-> getServicesForNF("AMF"),
      ownStatus |-> << >>, ownLastHeartbeat |-> <<PastTime>>,
      ownStatusChangedAt |-> <<PastTime>>]}

\* Instance ids that callers of the registry use: one in the inventory, one not.
CallerIds == {"amf-1", UnknownId}

RegisterNF(id, input) ==
    /\ calls < MaxCalls
    /\ calls' = calls + 1
    /\ Apply(registerNF(State, now, id, input, nfStore))
    /\ lastCall' = Call("registerNF", id, input.nfType, registerNFResponse(id).nfStatus)
    /\ UNCHANGED <<now, monitorVars, nfStore, linkVars>>

UpdateHeartbeat(id) ==
    /\ calls < MaxCalls
    /\ calls' = calls + 1
    /\ Apply(updateHeartbeat(State, now, id, nfStore))
    /\ lastCall' = Call("updateHeartbeat", id, "",
                        IF updateHeartbeatResult(State, id) THEN "true" ELSE "false")
    /\ UNCHANGED <<now, monitorVars, nfStore, linkVars>>

DeregisterNF(id) ==
    /\ calls < MaxCalls
    /\ calls' = calls + 1
    /\ Apply(deregisterNF(State, now, id, "MANUAL", nfStore))
    /\ lastCall' = Call("deregisterNF", id, "MANUAL", "")
    /\ UNCHANGED <<now, monitorVars, nfStore, linkVars>>

CreateConnection(sourceId, targetId, isManual) ==
    /\ calls < MaxCalls
    /\ calls' = calls + 1
    /\ IF Rejection(sourceId, targetId, nfStore) # ""
       THEN /\ lastCall' = Call("createConnection", sourceId, targetId, "null")
            /\ UNCHANGED linkVars
       ELSE /\ connCount < MaxLinks
            /\ connCount' = connCount + 1
            /\ connections' = Append(connections,
                  [id |-> connCount + 1, sourceId |-> sourceId, targetId |-> targetId,
                   interfaceName |-> getInterfaceName(NFType(sourceId), NFType(targetId)),
                   createdAt |-> now, isManual |-> isManual])
            /\ regTimers' = regTimers \cup
                  {[nfId |-> RegistrationPeer(sourceId, targetId)[i],
                    deadline |-> now + registrationDelay] :
                      i \in 1..Len(RegistrationPeer(sourceId, targetId))}
            /\ lastCall' = Call("createConnection", sourceId, targetId, "connection")
    /\ UNCHANGED <<now, registryVars, nfView, monitorVars, nfStore>>

\* A plausible slip: the NF is deregistered but its heartbeat task is left running.
DeleteConnection_KeepsHeartbeat(connectionId) ==
    /\ calls < MaxCalls
    /\ calls' = calls + 1
    /\ IF ~\E i \in 1..Len(connections) : connections[i].id = connectionId
       THEN /\ lastCall' = Call("deleteConnection", "", "", "not-found")
            /\ UNCHANGED <<registryVars, nfView, connections>>
       ELSE LET c == connections[CHOOSE i \in 1..Len(connections) :
                                    connections[i].id = connectionId]
                peer == IF c.sourceId \in nfStore /\ c.targetId \in nfStore
                        THEN RegistrationPeer(c.sourceId, c.targetId) ELSE << >>
            IN /\ IF peer # << >>
                  THEN Apply(deregisterNF(State, now, peer[1], "NRF_CONNECTION_REMOVED",
                                          nfStore))
                  ELSE UNCHANGED <<registryVars, nfView>>
               /\ connections' = SelectSeq(connections, LAMBDA x : x.id # connectionId)
               /\ lastCall' = Call("deleteConnection", c.sourceId, c.targetId, "deleted")
    /\ UNCHANGED <<now, monitorVars, nfStore, connCount, regTimers>>

DeleteConnection(connectionId) ==
    /\ calls < MaxCalls
    /\ calls' = calls + 1
    /\ IF ~\E i \in 1..Len(connections) : connections[i].id = connectionId
       THEN /\ lastCall' = Call("deleteConnection", "", "", "not-found")
            /\ UNCHANGED <<registryVars, nfView, connections>>
       ELSE LET c == connections[CHOOSE i \in 1..Len(connections) :
                                    connections[i].id = connectionId]
                peer == IF c.sourceId \in nfStore /\ c.targetId \in nfStore
                        THEN RegistrationPeer(c.sourceId, c.targetId) ELSE << >>
            IN /\ IF peer # << >>
                  THEN Apply(stopNFHeartbeat(
                           deregisterNF(State, now, peer[1], "NRF_CONNECTION_REMOVED", nfStore),
                           peer[1], nfStore))
                  ELSE UNCHANGED <<registryVars, nfView>>
               /\ connections' = SelectSeq(connections, LAMBDA x : x.id # connectionId)
               /\ lastCall' = Call("deleteConnection", c.sourceId, c.targetId, "deleted")
    /\ UNCHANGED <<now, monitorVars, nfStore, connCount, regTimers>>

StopNFHeartbeat(id) ==
    /\ calls < MaxCalls
    /\ calls' = calls + 1
    /\ Apply(stopNFHeartbeat(State, id, nfStore))
    /\ lastCall' = Call("stopNFHeartbeat", id, "", "")
    /\ UNCHANGED <<now, monitorVars, nfStore, linkVars>>

StartHeartbeatMonitor ==
    /\ calls < MaxCalls
    /\ calls' = calls + 1
    /\ isMonitoring' = startHeartbeatMonitor(Monitor, now).isMonitoring
    /\ monitorIntervalId' = startHeartbeatMonitor(Monitor, now).monitorIntervalId
    /\ lastCall' = Call("startHeartbeatMonitor", "", "", "")
    /\ UNCHANGED <<now, registryVars, nfView, nfStore, linkVars>>

StopHeartbeatMonitor ==
    /\ calls < MaxCalls
    /\ calls' = calls + 1
    /\ isMonitoring' = stopHeartbeatMonitor(Monitor).isMonitoring
    /\ monitorIntervalId' = stopHeartbeatMonitor(Monitor).monitorIntervalId
    /\ lastCall' = Call("stopHeartbeatMonitor", "", "", "")
    /\ UNCHANGED <<now, registryVars, nfView, nfStore, linkVars>>

\* The NFs that the user deletes from the inventory.
RemovableIds == {"amf-1"}

\* window.dataStore.removeNF(id): the NF leaves the inventory, with its connections
\* (dropLinks) or without them; the registry and the timers are not told.
RemoveNF(id, dropLinks) ==
    /\ id \in nfStore
    /\ nfStore' = nfStore \ {id}
    /\ connections' = IF dropLinks
                      THEN SelectSeq(connections,
                                     LAMBDA c : c.sourceId # id /\ c.targetId # id)
                      ELSE connections
    /\ lastCall' = Call("removeNF", id, "", "")
    /\ UNCHANGED <<now, registryVars, nfView, monitorVars, connCount, regTimers, calls>>

----------------------------------------------------------------------------
(* Timer callbacks.                                                        *)

\* setInterval(() => this.checkHeartbeatTimeouts(), 10000)
Sweep ==
    /\ monitorIntervalId # 0
    /\ monitorIntervalId <= now
    /\ Apply(checkHeartbeatTimeouts(State, now, nfStore))
    /\ monitorIntervalId' = monitorIntervalId + sweepInterval
    /\ lastCall' = Call("checkHeartbeatTimeouts", "", "", "")
    /\ UNCHANGED <<now, isMonitoring, nfStore, linkVars, calls>>

\* setTimeout(() => this.registry.delete(nfInstanceId), 5000)
\* (two timers for one id with one deadline are one element: the second delete is a no-op)
Purge ==
    \E x \in purgeTimers :
        /\ x.deadline <= now
        /\ registry' = MapDelete(registry, x.nfInstanceId)
        /\ purgeTimers' = purgeTimers \ {x}
        /\ lastCall' = Call("purge", x.nfInstanceId, "", "")
        /\ UNCHANGED <<now, registrationMessages, registrationHistory,
                       deregistrationMessages, deregistrationHistory, advisoryTasks,
                       nfView, monitorVars, nfStore, linkVars, calls>>

\* profile.deregisteredMonitorIntervalId = null, on the profile object the task captured
ClearAdvisoryId(reg, x) ==
    IF Has(reg, x.nfInstanceId) /\ Get(reg, x.nfInstanceId).oid = x.oid
    THEN MapSet(reg, x.nfInstanceId,
                [Get(reg, x.nfInstanceId) EXCEPT !.deregisteredMonitorIntervalId = 0])
    ELSE reg

\* A plausible slip: the callback does not look at the current profile.
AdvisoryTick_IgnoresReRegistration ==
    \E x \in advisoryTasks :
        /\ x.deadline <= now
        /\ IF x.nfInstanceId \notin nfStore
           THEN /\ advisoryTasks' = advisoryTasks \ {x}
                /\ registry' = ClearAdvisoryId(registry, x)
                /\ lastCall' = Call("advisory", x.nfInstanceId, "", "stopped")
           ELSE /\ advisoryTasks' = (advisoryTasks \ {x}) \cup
                                    {[x EXCEPT !.deadline = x.deadline + advisoryInterval]}
                /\ registry' = registry
                /\ lastCall' = Call("advisory", x.nfInstanceId, "", "notice")
        /\ UNCHANGED <<now, registrationMessages, registrationHistory,
                       deregistrationMessages, deregistrationHistory, purgeTimers,
                       nfView, monitorVars, nfStore, linkVars, calls>>

\* The setInterval callback of startDeregisteredNFMonitoring.
AdvisoryTick ==
    \E x \in advisoryTasks :
        /\ x.deadline <= now
        /\ IF \/ x.nfInstanceId \notin nfStore
              \/ /\ Has(registry, x.nfInstanceId)
                 /\ Get(registry, x.nfInstanceId).nfStatus = "REGISTERED"
           THEN /\ advisoryTasks' = advisoryTasks \ {x}
                /\ registry' = ClearAdvisoryId(registry, x)
                /\ lastCall' = Call("advisory", x.nfInstanceId, "", "stopped")
           ELSE /\ advisoryTasks' = (advisoryTasks \ {x}) \cup
                                    {[x EXCEPT !.deadline = x.deadline + advisoryInterval]}
                /\ registry' = registry
                /\ lastCall' = Call("advisory", x.nfInstanceId, "", "notice")
        /\ UNCHANGED <<now, registrationMessages, registrationHistory,
                       deregistrationMessages, deregistrationHistory, purgeTimers,
                       nfView, monitorVars, nfStore, linkVars, calls>>

\* The setTimeout callback of createConnection: registerNF, then startNFHeartbeat.
AutoRegister ==
    \E x \in regTimers :
        /\ x.deadline <= now
        /\ Apply(startNFHeartbeat(registerNF(State, now, x.nfId, AutoProfile(x.nfId), nfStore),
                                  now, x.nfId, nfStore, connections))
        /\ regTimers' = regTimers \ {x}
        /\ lastCall' = Call("autoRegister", x.nfId, "", "")
        /\ UNCHANGED <<now, monitorVars, nfStore, connections, connCount, calls>>

\* A plausible slip: the callback does not look the NF up before it renews.
HeartbeatTick_RenewsDeleted ==
    \E id \in NFIds :
        /\ nfView[id].hbDeadline # 0
        /\ nfView[id].hbDeadline <= now
        /\ Apply(updateHeartbeat(
                    [State EXCEPT !.nfView[id].hbDeadline =
                                     nfView[id].hbDeadline + nfHeartbeatInterval],
                    now, id, nfStore))
        /\ lastCall' = Call("heartbeat", id, "",
                            IF updateHeartbeatResult(State, id) THEN "true" ELSE "false")
        /\ UNCHANGED <<now, monitorVars, nfStore, linkVars, calls>>

\* A plausible slip: the callback runs but does not call updateHeartbeat.
HeartbeatTick_NoRenewal ==
    \E id \in NFIds :
        /\ nfView[id].hbDeadline # 0
        /\ nfView[id].hbDeadline <= now
        /\ IF id \notin nfStore
           THEN /\ Apply([State EXCEPT !.nfView[id].hbDeadline =
                            IF nfView[id].heartbeatIntervalId # 0 THEN 0
                            ELSE nfView[id].hbDeadline + nfHeartbeatInterval])
                /\ lastCall' = Call("heartbeat", id, "", "stopped")
           ELSE /\ Apply([State EXCEPT !.nfView[id].hbDeadline =
                                             nfView[id].hbDeadline + nfHeartbeatInterval])
                /\ lastCall' = Call("heartbeat", id, "",
                                    IF updateHeartbeatResult(State, id) THEN "true" ELSE "false")
        /\ UNCHANGED <<now, monitorVars, nfStore, linkVars, calls>>

\* The setInterval callback of startNFHeartbeat.
HeartbeatTick ==
    \E id \in NFIds :
        /\ nfView[id].hbDeadline # 0
        /\ nfView[id].hbDeadline <= now
        /\ IF id \notin nfStore
           THEN /\ Apply([State EXCEPT !.nfView[id].hbDeadline =
                            IF nfView[id].heartbeatIntervalId # 0 THEN 0
                            ELSE nfView[id].hbDeadline + nfHeartbeatInterval])
                /\ lastCall' = Call("heartbeat", id, "", "stopped")
           ELSE /\ Apply(updateHeartbeat(
                            [State EXCEPT !.nfView[id].hbDeadline =
                                             nfView[id].hbDeadline + nfHeartbeatInterval],
                            now, id, nfStore))
                /\ lastCall' = Call("heartbeat", id, "",
                                    IF updateHeartbeatResult(State, id) THEN "true" ELSE "false")
        /\ UNCHANGED <<now, monitorVars, nfStore, linkVars, calls>>

\* The clock moves on when no callback is due.
Tick ==
    /\ \A d \in Deadlines : d > now
    /\ NextInstant <= MaxTime
    /\ now' = NextInstant
    /\ UNCHANGED <<registryVars, nfView, monitorVars, nfStore, linkVars, lastCall, calls>>

----------------------------------------------------------------------------
(* Specifications.                                                         *)

\* Callers of the registry API, with the sweep running.
NextRegistry ==
    \/ \E id \in CallerIds, input \in ProfileInputs : RegisterNF(id, input)
    \/ \E id \in CallerIds : UpdateHeartbeat(id)
    \/ \E id \in CallerIds : DeregisterNF(id)
    \/ Sweep
    \/ Purge
    \/ AdvisoryTick
    \/ Tick

SpecRegistry == InitMonitoring /\ [][NextRegistry]_vars

\* Callers of the connection manager; the sweep is not started.
Next ==
    \/ \E a \in AllIds, b \in AllIds, m \in BOOLEAN : CreateConnection(a, b, m)
    \/ \E c \in 1..(MaxLinks + 1) : DeleteConnection(c)
    \/ Purge
    \/ AdvisoryTick
    \/ AutoRegister
    \/ HeartbeatTick
    \/ Tick

Spec == Init /\ [][Next]_vars

\* The NFs that callers link when the delayed registration is followed to its end.
LinkedIds == {"nrf-1", "amf-1", "upf-1", "smf-1"}

\* Callers of the connection manager, linking the NFs of LinkedIds by hand.
NextTimed ==
    \/ \E a \in LinkedIds, b \in LinkedIds : CreateConnection(a, b, TRUE)
    \/ \E c \in 1..MaxLinks : DeleteConnection(c)
    \/ Purge
    \/ AdvisoryTick
    \/ AutoRegister
    \/ HeartbeatTick
    \/ Tick

FairSpec ==
    /\ Init /\ [][NextTimed]_vars
    /\ WF_vars(Tick) /\ WF_vars(AutoRegister) /\ WF_vars(HeartbeatTick)
    /\ WF_vars(Purge) /\ WF_vars(AdvisoryTick)

\* Callers of the connection manager, with the sweep running.
NextMonitored ==
    \/ NextTimed
    \/ Sweep

SpecMonitored == InitMonitoring /\ [][NextMonitored]_vars

\* Callers of the registry API who also start and stop the sweep.
NextSweepControl ==
    \/ NextRegistry
    \/ StartHeartbeatMonitor
    \/ StopHeartbeatMonitor

\* After new NRFRegistry(), with or without a call of startHeartbeatMonitor().
InitSweepControl ==
    /\ InitCommon
    /\ isMonitoring \in BOOLEAN
    /\ monitorIntervalId = IF isMonitoring THEN StartTime + sweepInterval ELSE 0

SpecSweepControl == InitSweepControl /\ [][NextSweepControl]_vars

\* Callers of the registry API, some of whose profile inputs carry a status or times of
\* their own.
NextMerge ==
    \/ \E id \in CallerIds, input \in ProfileInputs \cup MergingInputs : RegisterNF(id, input)
    \/ \E id \in CallerIds : UpdateHeartbeat(id)
    \/ \E id \in CallerIds : DeregisterNF(id)
    \/ Sweep
    \/ Purge
    \/ AdvisoryTick
    \/ Tick

SpecMerge == InitMonitoring /\ [][NextMerge]_vars

\* Callers of the registry API after a first lifecycle of amf-1 has ended.
SpecLifecycle == InitDeregistered /\ [][NextRegistry]_vars

\* Callers of the registry API after a first lifecycle of amf-1 has ended, and the user
\* who deletes an NF from the inventory.
NextAdvisory ==
    \/ NextRegistry
    \/ \E id \in RemovableIds, d \in BOOLEAN : RemoveNF(id, d)

SpecAdvisory == InitDeregistered /\ [][NextAdvisory]_vars

\* Callers of the registry and of the connection manager together, and the user who
\* deletes an NF from the inventory; the sweep is not started.
NextSystem ==
    \/ \E id \in CallerIds, input \in ProfileInputs : RegisterNF(id, input)
    \/ \E id \in CallerIds : UpdateHeartbeat(id)
    \/ \E id \in CallerIds : DeregisterNF(id)
    \/ \E a \in LinkedIds, b \in LinkedIds : CreateConnection(a, b, TRUE)
    \/ \E c \in 1..(MaxLinks + 1) : DeleteConnection(c)
    \/ \E id \in CallerIds : StopNFHeartbeat(id)
    \/ \E id \in RemovableIds, d \in BOOLEAN : RemoveNF(id, d)
    \/ Purge
    \/ AdvisoryTick
    \/ AutoRegister
    \/ HeartbeatTick
    \/ Tick

SpecSystem == Init /\ [][NextSystem]_vars

\* Callers of the connection manager after amf-1 has been connected to the NRF twice.
SpecLinked == InitLinked /\ [][Next]_vars

----------------------------------------------------------------------------
(* Properties.                                                             *)

NoFilter == [nfType |-> "", service |-> ""]
ByType(T) == [nfType |-> T, service |-> ""]

\* Filters that callers of discoverNFs pass: none, type, service, both.
Queries ==
    {NoFilter, ByType("AMF"), ByType("SMF"),
     [nfType |-> "", service |-> "namf-comm"],
     [nfType |-> "AMF", service |-> "namf-comm-v1"],
     [nfType |-> "SMF", service |-> "namf-comm"]}

TypeTags == ValidConnectionKeys \cup {"Service", "NEF", "AF"}

\* The instance ids of the profiles discoverNFs returns.
DiscoverIds(reg, query) ==
    {discoverNFs(reg, query)[i].nfInstanceId : i \in 1..Len(discoverNFs(reg, query))}

StatusOf(reg, id) == IF Has(reg, id) THEN Get(reg, id).nfStatus ELSE "absent"

\* The step is a run of the handler op that was called from outside.
Called(op) == calls' = calls + 1 /\ lastCall'.op = op

\* C1: whatever the filter, every profile discoverNFs returns has nfStatus REGISTERED;
\* a profile that is UNAVAILABLE, or REMOVED and not yet purged, is never returned.
C1_DiscoverOnlyRegistered ==
    \A q \in Queries :
        /\ \A i \in 1..Len(discoverNFs(registry, q)) :
               discoverNFs(registry, q)[i].nfStatus = "REGISTERED"
        /\ \A i \in 1..Len(registry) :
               registry[i].nfStatus \in {"UNAVAILABLE", "REMOVED"}
                   => registry[i].nfInstanceId \notin DiscoverIds(registry, q)

\* C1 witness: an UNAVAILABLE profile and a REGISTERED one are in the registry, and
\* discovery without a filter returns just the REGISTERED one.
C1_Witness ==
    /\ \E i, j \in 1..Len(registry) :
           registry[i].nfStatus = "UNAVAILABLE" /\ registry[j].nfStatus = "REGISTERED"
    /\ Len(discoverNFs(registry, NoFilter)) = 1

\* C2: for every type T, discoverNFs({nfType: T}) returns exactly the instances of the
\* registry that are REGISTERED and of type T: none is missing and no other is present.
C2_DiscoverByTypeExact ==
    \A T \in TypeTags :
        /\ \A i \in 1..Len(registry) :
               (registry[i].nfStatus = "REGISTERED" /\ registry[i].nfType = T)
                   <=> registry[i].nfInstanceId \in DiscoverIds(registry, ByType(T))
        /\ \A id \in DiscoverIds(registry, ByType(T)) : Has(registry, id)

\* C2 witness: a REGISTERED AMF and a REGISTERED SMF are in the registry and the
\* AMF filter returns one profile.
C2_Witness ==
    /\ \E i, j \in 1..Len(registry) :
           /\ registry[i].nfStatus = "REGISTERED" /\ registry[i].nfType = "AMF"
           /\ registry[j].nfStatus = "REGISTERED" /\ registry[j].nfType = "SMF"
    /\ Len(discoverNFs(registry, ByType("AMF"))) = 1

\* The step is a pass of the sweep (only the sweep re-arms the monitor timer).
SweepStep == monitorIntervalId # 0 /\ monitorIntervalId' = monitorIntervalId + sweepInterval

C5_Original ==
    [][SweepStep =>
          \A i \in 1..Len(registry) :
              LET p == registry[i]
                  e == now - LastHeartbeatOf(p)
                  st == StatusOf(registry', p.nfInstanceId)
              IN p.nfStatus # "REMOVED"
                 => /\ (e > heartbeatTimeout /\ e <= heartbeatTimeout + gracePeriod)
                           => st = "UNAVAILABLE"
                    /\ e > heartbeatTimeout + gracePeriod
                           => /\ st = "REMOVED"
                              /\ p.nfInstanceId \notin DiscoverIds(registry', NoFilter)]_vars

\* C5 amended: at a sweep pass at time s, a profile last renewed at t0 (and not
\* deregistered by a caller) is UNAVAILABLE when s is in (t0+H, t0+H+G]; it is absent from
\* discovery whenever s is after t0+H; when s is after t0+H+G it is REMOVED if it was
\* already UNAVAILABLE and more than G has passed since statusChangedAt (the time of the
\* pass that marked it), and is still UNAVAILABLE otherwise.
C5_Amended ==
    [][SweepStep =>
          \A i \in 1..Len(registry) :
              LET p == registry[i]
                  e == now - LastHeartbeatOf(p)
                  st == StatusOf(registry', p.nfInstanceId)
              IN p.nfStatus # "REMOVED"
                 => /\ (e > heartbeatTimeout /\ e <= heartbeatTimeout + gracePeriod)
                           => st = "UNAVAILABLE"
                    /\ e > heartbeatTimeout
                           => p.nfInstanceId \notin DiscoverIds(registry', NoFilter)
                    /\ e > heartbeatTimeout + gracePeriod
                           => st = (IF /\ p.nfStatus = "UNAVAILABLE"
                                       /\ now - p.statusChangedAt > gracePeriod
                                    THEN "REMOVED" ELSE "UNAVAILABLE")]_vars

\* C5 witness: the sweep has just deregistered a profile for heartbeat timeout, while
\* another profile, also past t0+H+G, is still UNAVAILABLE.
C5_Witness ==
    /\ lastCall.op = "checkHeartbeatTimeouts"
    /\ \E i, j \in 1..Len(registry) :
           /\ registry[i].nfStatus = "REMOVED"
           /\ registry[i].deregistrationReason = "AUTOMATIC_HEARTBEAT_TIMEOUT"
           /\ registry[i].deregisteredAt = now
           /\ registry[j].nfStatus = "UNAVAILABLE"
           /\ now - LastHeartbeatOf(registry[j]) > heartbeatTimeout + gracePeriod

\* The step is a renewal of id called from outside.
RenewStep(id) == Called("updateHeartbeat") /\ lastCall'.a = id

\* C6: a renewal received less than H+G after the last one, for a profile no caller
\* deregistered, leaves it REGISTERED with lastHeartbeat the time of the renewal; the
\* sweep does not remove a profile before more than H+G has passed since its last renewal,
\* and does not mark a REGISTERED profile UNAVAILABLE until more than H has passed since it.
C6_RenewalRestores ==
    [][/\ \A id \in AllIds :
              (/\ RenewStep(id)
               /\ StatusOf(registry, id) \in {"REGISTERED", "UNAVAILABLE"}
               /\ now - LastHeartbeatOf(Get(registry, id)) < heartbeatTimeout + gracePeriod)
              => /\ StatusOf(registry', id) = "REGISTERED"
                 /\ Get(registry', id).lastHeartbeat = now
       /\ SweepStep =>
              \A i \in 1..Len(registry) :
                  LET p == registry[i]
                      st == StatusOf(registry', p.nfInstanceId)
                  IN /\ (/\ p.nfStatus = "REGISTERED"
                         /\ now - LastHeartbeatOf(p) <= heartbeatTimeout)
                        => st = "REGISTERED"
                     /\ (p.nfStatus # "REMOVED" /\ st = "REMOVED")
                        => now - LastHeartbeatOf(p) > heartbeatTimeout + gracePeriod]_vars

\* C6 witness: a renewal has just restored a profile that the sweep had marked
\* UNAVAILABLE (its registration is more than H old) to REGISTERED.
C6_Witness ==
    /\ lastCall.op = "updateHeartbeat"
    /\ lastCall.result = "true"
    /\ \E i \in 1..Len(registry) :
           /\ registry[i].nfInstanceId = lastCall.a
           /\ registry[i].nfStatus = "REGISTERED"
           /\ registry[i].lastHeartbeat = now
           /\ registry[i].statusChangedAt = now
           /\ now - registry[i].registeredAt > heartbeatTimeout
           /\ Len(registrationHistory) = 1

\* The step is a call of createConnection(a, b).
CreateStep(a, b) ==
    Called("createConnection") /\ lastCall'.a = a /\ lastCall'.b = b

\* The compatibility table lists type tb under type ta.
Listed(ta, tb) == ta \in ValidConnectionKeys /\ Includes(validConnections(ta), tb)

\* C7: createConnection(A, B) returns a connection and stores it if and only if A and B
\* are both in the inventory, A # B, their addresses have the same first three octets and
\* the table lists one type under the other in at least one direction; otherwise it
\* returns null and stores nothing.
C7_CreateLinkIff ==
    [][\A a \in AllIds, b \in AllIds :
          CreateStep(a, b) =>
              IF /\ a \in nfStore /\ b \in nfStore
                 /\ a # b
                 /\ \A k \in 1..3 : NFIp(a)[k] = NFIp(b)[k]
                 /\ Listed(NFType(a), NFType(b)) \/ Listed(NFType(b), NFType(a))
              THEN /\ lastCall'.result = "connection"
                   /\ Len(connections') = Len(connections) + 1
                   /\ connections'[Len(connections')].sourceId = a
                   /\ connections'[Len(connections')].targetId = b
                   /\ SubSeq(connections', 1, Len(connections)) = connections
              ELSE /\ lastCall'.result = "null"
                   /\ connections' = connections]_vars

\* C7 witness: a link that only the reverse direction of the table admits is stored, and
\* the call after it was rejected.
C7_Witness ==
    /\ Len(connections) = 1
    /\ connections[1].sourceId = "upf-1"
    /\ connections[1].targetId = "dn-1"
    /\ lastCall.op = "createConnection"
    /\ lastCall.result = "null"

\* isConnectionValid gives one verdict for a pair of type tags in both orders.
TypeVerdictSymmetric ==
    \A ta \in TypeTags, tb \in TypeTags :
        isConnectionValid(ta, tb) <=> isConnectionValid(tb, ta)

RegistrationPending(x) ==
    \E r \in regTimers : r.nfId = x /\ r.deadline <= MaxTime

\* C9: a successful createConnection between an NF X that is not an NRF and an NRF, in
\* either order, schedules the registration of X after the fixed delay; registerNF is then
\* eventually called for X, and X is then in discoverNFs() and in
\* discoverNFs({nfType: type of X}) with nfStatus REGISTERED.
C9_LinkToRegistryRegisters ==
    /\ [][\A a \in NFIds, b \in NFIds :
             (/\ CreateStep(a, b) /\ lastCall'.result = "connection"
              /\ IsNRF(a) # IsNRF(b))
             => LET X == IF IsNRF(a) THEN b ELSE a
                IN [nfId |-> X, deadline |-> now + registrationDelay] \in regTimers']_vars
    /\ \A X \in NFIds :
           RegistrationPending(X) ~>
               (/\ lastCall.op = "autoRegister" /\ lastCall.a = X
                /\ X \in DiscoverIds(registry, NoFilter)
                /\ X \in DiscoverIds(registry, ByType(NFType(X)))
                /\ StatusOf(registry, X) = "REGISTERED")

\* C9 witness: the NRF was linked to upf-1 (NRF as the source), the delayed callback has
\* run, and upf-1 is in the result of discovery by its type.
C9_Witness ==
    /\ \E i \in 1..Len(connections) :
           connections[i].sourceId = "nrf-1" /\ connections[i].targetId = "upf-1"
    /\ lastCall.op = "autoRegister"
    /\ lastCall.a = "upf-1"
    /\ "upf-1" \in DiscoverIds(registry, ByType("UPF"))
    /\ now = StartTime + registrationDelay

\* C10: deleteConnection of a link between an NF X and the NRF, at whatever moment after
\* the link was created, leaves X out of discoverNFs() and its profile REMOVED, and X comes
\* back into discoverNFs() only while a link between X and the NRF exists.
C10_DeleteLinkRemoves ==
    [][\A X \in NFIds :
          /\ (/\ Called("deleteConnection") /\ lastCall'.result = "deleted"
              /\ RegistrationPeer(lastCall'.a, lastCall'.b) = <<X>>)
             => /\ X \notin DiscoverIds(registry', NoFilter)
                /\ Has(registry', X) => StatusOf(registry', X) = "REMOVED"
          /\ (/\ X \notin DiscoverIds(registry, NoFilter)
              /\ X \in DiscoverIds(registry', NoFilter))
             => HasNrfConnection(connections', X, nfStore')]_vars

\* The claim's conditions of admission, from the inventory and the table.
Admissible(a, b) ==
    /\ a \in nfStore /\ b \in nfStore
    /\ a # b
    /\ \A k \in 1..3 : NFIp(a)[k] = NFIp(b)[k]
    /\ Listed(NFType(a), NFType(b)) \/ Listed(NFType(b), NFType(a))

\* C11: a createConnection that must be rejected (unknown end, same end twice, different
\* subnets or incompatible types) returns null and changes nothing: the connections, the
\* pending registrations, the heartbeat tasks, the registry and the histories stay as
\* they were.
C11_RejectedLinkChangesNothing ==
    [][\A a \in AllIds, b \in AllIds :
          (CreateStep(a, b) /\ ~Admissible(a, b))
          => /\ lastCall'.result = "null"
             /\ UNCHANGED <<connections, connCount, regTimers, nfView, nfStore>>
             /\ UNCHANGED <<registry, registrationHistory, registrationMessages,
                            deregistrationHistory, deregistrationMessages,
                            purgeTimers, advisoryTasks>>]_vars

\* C11 witness: with a link to the NRF stored, a profile registered and its heartbeat
\* task running, a link between an NF of no listed type and the NRF was rejected.
C11_Witness ==
    /\ lastCall.op = "createConnection"
    /\ lastCall.a = "svc-1" /\ lastCall.b = "nrf-1"
    /\ lastCall.result = "null"
    /\ Len(connections) = 1
    /\ Len(registry) = 1
    /\ regTimers = {}
    /\ \E id \in NFIds : nfView[id].heartbeatIntervalId # 0

\* Nothing of the registry, of the connections or of the recurring tasks changes.
NothingChanges ==
    /\ UNCHANGED <<registry, registrationHistory, registrationMessages,
                   deregistrationHistory, deregistrationMessages>>
    /\ UNCHANGED <<connections, connCount, nfStore>>
    /\ UNCHANGED <<purgeTimers, advisoryTasks, regTimers, nfView, monitorVars>>

\* C12: a call that names an unknown id has no effect: updateHeartbeat returns false,
\* deregisterNF and deleteConnection return; the registry, the histories and latest
\* records, the connections and the recurring tasks are the same before and after.
C12_UnknownIdNoEffect ==
    [][/\ \A id \in AllIds :
              (UpdateHeartbeat(id) /\ ~Has(registry, id))
              => (lastCall'.result = "false" /\ NothingChanges)
       /\ \A id \in AllIds :
              (DeregisterNF(id) /\ ~Has(registry, id)) => NothingChanges
       /\ \A c \in 1..(MaxLinks + 1) :
              (DeleteConnection(c) /\ \A i \in 1..Len(connections) : connections[i].id # c)
              => (lastCall'.result = "not-found" /\ NothingChanges)]_vars

\* C12 witness: with a profile in the registry and its record in the history,
\* deregisterNF was called for an id the registry does not hold.
C12_Witness ==
    /\ lastCall.op = "deregisterNF"
    /\ lastCall.a = UnknownId
    /\ Len(registry) = 1
    /\ Len(registrationHistory) = 1
    /\ calls = 2

\* History h is kept as it was at the front of h2.
GrowsFrom(h, h2) == Len(h2) >= Len(h) /\ SubSeq(h2, 1, Len(h)) = h

\* The last record of history h for id, as the latest-record map holds it.
LatestOf(h, id) ==
    LET idx == {i \in 1..Len(h) : h[i].nfInstanceId = id}
    IN IF idx = {} THEN << >>
       ELSE <<h[CHOOSE i \in idx : \A j \in idx : j <= i]>>

\* The latest-record maps hold, for every id, the last record of the history for it.
LatestRecordsAgree ==
    \A id \in AllIds :
        /\ registrationMessages[id] = LatestOf(registrationHistory, id)
        /\ deregistrationMessages[id] = LatestOf(deregistrationHistory, id)

\* What C13 says of every step but a call of deregisterNF from outside: the histories grow
\* only at the end, a registerNF call appends one registration record, a sweep appends one
\* deregistration record for each profile it deregisters, the latest records agree.
HistoriesKept ==
    /\ GrowsFrom(registrationHistory, registrationHistory')
    /\ GrowsFrom(deregistrationHistory, deregistrationHistory')
    /\ LatestRecordsAgree'
    /\ \A id \in AllIds, input \in ProfileInputs :
           RegisterNF(id, input)
           => /\ Len(registrationHistory') = Len(registrationHistory) + 1
              /\ registrationHistory'[Len(registrationHistory')].nfInstanceId = id
              /\ registrationHistory'[Len(registrationHistory')].nfType = input.nfType
              /\ registrationHistory'[Len(registrationHistory')].timestamp = now
              /\ deregistrationHistory' = deregistrationHistory
    /\ SweepStep
           => /\ registrationHistory' = registrationHistory
              /\ Len(deregistrationHistory') - Len(deregistrationHistory) =
                     Cardinality({i \in 1..Len(registry) :
                                     /\ registry[i].nfStatus # "REMOVED"
                                     /\ StatusOf(registry', registry[i].nfInstanceId)
                                            = "REMOVED"})

\* A call of deregisterNF(id) appended one record for id to the deregistration history.
DeregistrationAppended(id) ==
    /\ Len(deregistrationHistory') = Len(deregistrationHistory) + 1
    /\ deregistrationHistory'[Len(deregistrationHistory')].nfInstanceId = id
    /\ deregistrationHistory'[Len(deregistrationHistory')].timestamp = now
    /\ registrationHistory' = registrationHistory

\* C13 as stated: every registerNF call appends exactly one record to the registration
\* history and every deregisterNF call exactly one to the deregistration history; the
\* histories only grow, and the latest records are those of the most recent calls.
C13_Original ==
    [][/\ HistoriesKept
       /\ \A id \in AllIds : DeregisterNF(id) => DeregistrationAppended(id)]_vars

\* C13 amended: as stated, but a deregisterNF call appends its one record only when the
\* id has a profile in the registry; for an id without a profile it appends nothing.
C13_Amended ==
    [][/\ HistoriesKept
       /\ \A id \in AllIds :
              DeregisterNF(id)
              => IF Has(registry, id) THEN DeregistrationAppended(id)
                 ELSE deregistrationHistory' = deregistrationHistory]_vars

\* C13 witness: an id was registered twice and then deregistered by the sweep; the
\* histories hold the three records and the latest records are the last of each.
C13_Witness ==
    /\ Len(registrationHistory) = 2
    /\ registrationHistory[1].nfInstanceId = registrationHistory[2].nfInstanceId
    /\ Len(deregistrationHistory) = 1
    /\ deregistrationHistory[1].reason = "AUTOMATIC_HEARTBEAT_TIMEOUT"
    /\ registrationMessages["amf-1"] = <<registrationHistory[2]>>
    /\ deregistrationMessages["amf-1"] = <<deregistrationHistory[1]>>

\* C14: a registerNF call for an id that already has a profile in the registry is
\* rejected: the response is not REGISTERED and the stored profile stays as it was.
C14_DuplicateRejected ==
    [][\A id \in AllIds, input \in ProfileInputs :
          (RegisterNF(id, input) /\ Has(registry, id))
          => /\ lastCall'.result # "REGISTERED"
             /\ Get(registry', id) = Get(registry, id)]_vars

\* The sweep, run now, deregisters the profile of id.
SweepWouldDeregister(id) ==
    /\ Has(registry, id)
    /\ Get(registry, id).nfStatus # "REMOVED"
    /\ StatusOf(checkHeartbeatTimeouts(State, now, nfStore).registry, id) = "REMOVED"

\* Renewal of id first, then the sweep, at this instant: the profile is REGISTERED and
\* the sweep has pushed no deregistration record for it.
RenewalThenSweep(id) ==
    LET S1 == updateHeartbeat(State, now, id, nfStore)
        S2 == checkHeartbeatTimeouts(S1, now, nfStore)
    IN /\ StatusOf(S2.registry, id) = "REGISTERED"
       /\ \A k \in (Len(deregistrationHistory) + 1)..Len(S2.deregistrationHistory) :
              S2.deregistrationHistory[k].nfInstanceId # id
       /\ \A x \in S2.purgeTimers \ purgeTimers : x.nfInstanceId # id

\* C15 as stated: for a profile that is REGISTERED or UNAVAILABLE, a renewal that runs
\* before the sweep leaves it REGISTERED and not deregistered by that sweep; when the
\* sweep's deregistration runs first, the later renewal is a no-op on the REMOVED profile.
C15_Original ==
    \A id \in AllIds :
        /\ StatusOf(registry, id) \in {"REGISTERED", "UNAVAILABLE"} => RenewalThenSweep(id)
        /\ SweepWouldDeregister(id)
              => LET S1 == checkHeartbeatTimeouts(State, now, nfStore)
                 IN updateHeartbeat(S1, now, id, nfStore) = S1

\* C15 amended: as stated, but the later renewal is not a no-op: it leaves the status
\* REMOVED and everything else as it was, and stamps lastHeartbeat on the removed profile.
C15_Amended ==
    \A id \in AllIds :
        /\ StatusOf(registry, id) \in {"REGISTERED", "UNAVAILABLE"} => RenewalThenSweep(id)
        /\ SweepWouldDeregister(id)
              => LET S1 == checkHeartbeatTimeouts(State, now, nfStore)
                     S2 == updateHeartbeat(S1, now, id, nfStore)
                 IN /\ StatusOf(S2.registry, id) = "REMOVED"
                    /\ S2 = [S1 EXCEPT !.registry =
                                MapSet(S1.registry, id,
                                       [Get(S1.registry, id) EXCEPT !.lastHeartbeat = now])]

\* C15 witness: the sweep is due and would deregister the profile of amf-1, and a call
\* of updateHeartbeat can still come before it or after it.
C15_Witness ==
    /\ monitorIntervalId = now
    /\ calls < MaxCalls
    /\ SweepWouldDeregister("amf-1")
    /\ Get(registry, "amf-1").nfStatus = "UNAVAILABLE"

\* The NF object of id has a heartbeat interval set.
HasHeartbeatTask(id) == id \in NFIds /\ nfView[id].heartbeatIntervalId # 0

\* C16: stopNFHeartbeat(id) leaves an NF of the inventory with no heartbeat task and
\* touches nothing else; called again, or for an NF that has no task or is no longer in
\* the inventory, it changes nothing.
C16_StopHeartbeatIdempotent ==
    [][\A id \in AllIds :
          StopNFHeartbeat(id)
          => /\ IF id \in nfStore /\ HasHeartbeatTask(id)
                THEN /\ nfView'[id].heartbeatIntervalId = 0
                     /\ nfView'[id].hbDeadline = 0
                     /\ \A other \in NFIds \ {id} : nfView'[other] = nfView[other]
                     /\ nfView'[id].nrfStatus = nfView[id].nrfStatus
                ELSE nfView' = nfView
             /\ stopNFHeartbeat(State', id, nfStore') = State'
             /\ UNCHANGED <<registry, registrationHistory, registrationMessages,
                            deregistrationHistory, deregistrationMessages,
                            purgeTimers, advisoryTasks, regTimers, connections,
                            connCount, nfStore, monitorVars>>]_vars

\* C16 witness: the heartbeat task that the registration of amf-1 started over its link
\* to the NRF was stopped by a call of stopNFHeartbeat.
C16_Witness ==
    /\ lastCall.op = "stopNFHeartbeat"
    /\ lastCall.a = "amf-1"
    /\ "amf-1" \in nfStore
    /\ HasNrfConnection(connections, "amf-1", nfStore)
    /\ StatusOf(registry, "amf-1") = "REGISTERED"
    /\ nfView["amf-1"].nrfStatus = "REGISTERED"
    /\ ~HasHeartbeatTask("amf-1")
    /\ nfView["amf-1"].hbDeadline = 0

\* The advisory tasks of id.
AdvisoryTasksOf(tasks, id) == {x \in tasks : x.nfInstanceId = id}

\* C17: once an NF is deleted from the inventory, the first tick of its heartbeat task
\* clears the task without a renewal, the first tick of its advisory task clears the task
\* without a notice, and no task of the NF ticks or starts after that.
C17_TasksSelfCancel ==
    [][\A id \in NFIds :
          id \notin nfStore
          => /\ nfView'[id].hbDeadline # nfView[id].hbDeadline
                   => /\ nfView[id].hbDeadline <= now
                      /\ nfView'[id].hbDeadline = 0
                      /\ lastCall' = Call("heartbeat", id, "", "stopped")
                      /\ UNCHANGED <<registry, registrationHistory, deregistrationHistory>>
             /\ AdvisoryTasksOf(advisoryTasks', id) \subseteq AdvisoryTasksOf(advisoryTasks, id)
             /\ \A x \in AdvisoryTasksOf(advisoryTasks, id) \ advisoryTasks' :
                    /\ x.deadline <= now
                    /\ lastCall' = Call("advisory", id, "", "stopped")
                    /\ registry' = ClearAdvisoryId(registry, x)
             /\ (/\ lastCall' # lastCall /\ lastCall'.a = id
                 /\ lastCall'.op \in {"heartbeat", "advisory"})
                   => lastCall'.result = "stopped"]_vars

\* C17 witness: amf-1 was deleted from the inventory while its heartbeat task was
\* running; the task has ticked and cleared itself, and the profile was not renewed.
C17_Witness ==
    /\ "amf-1" \notin nfStore
    /\ lastCall = Call("heartbeat", "amf-1", "", "stopped")
    /\ nfView["amf-1"].hbDeadline = 0
    /\ StatusOf(registry, "amf-1") = "REGISTERED"
    /\ Get(registry, "amf-1").lastHeartbeat + nfHeartbeatInterval = now

\* C18: a registerNF call for an id whose profile is REMOVED, still in the registry or
\* already purged from it, starts a new lifecycle: the registeredAt of the new profile is
\* the time of that call.
C18_ReRegisterNewLifecycle ==
    [][\A id \in AllIds, input \in ProfileInputs :
          (/\ RegisterNF(id, input)
           /\ \/ StatusOf(registry, id) = "REMOVED"
              \/ ~Has(registry, id) /\ deregistrationMessages[id] # << >>)
          => Get(registry', id).registeredAt = now]_vars

\* C19: deregisterNF of an id that has a profile makes it REMOVED at once, with
\* deregisteredAt and deregistrationReason stamped; the profile stays in the registry
\* while the purge delay runs, and is not in the registry after the delay has elapsed.
C19_DeregisterThenPurge ==
    [][/\ \A id \in AllIds :
              (DeregisterNF(id) /\ Has(registry, id))
              => /\ StatusOf(registry', id) = "REMOVED"
                 /\ Get(registry', id).deregisteredAt = now
                 /\ Get(registry', id).deregistrationReason = "MANUAL"
       /\ \A i \in 1..Len(registry) :
              (/\ registry[i].nfStatus = "REMOVED"
               /\ now < registry[i].deregisteredAt + purgeDelay)
              => Has(registry', registry[i].nfInstanceId)
       /\ \A i \in 1..Len(registry') :
              registry'[i].nfStatus = "REMOVED"
              => now' <= registry'[i].deregisteredAt + purgeDelay]_vars

\* What the claim C20 says of one registerNF call: the response has status REGISTERED and
\* the heartbeat interval, and the registry then has a REGISTERED profile under the id whose
\* lastHeartbeat and statusChangedAt are the time of the call.
Accepted(id) ==
    /\ lastCall'.result = "REGISTERED"
    /\ registerNFResponse(id).nfStatus = "REGISTERED"
    /\ registerNFResponse(id).heartbeatTimer = heartbeatInterval
    /\ Has(registry', id)

StampedNow(id) ==
    /\ Get(registry', id).nfStatus = "REGISTERED"
    /\ Get(registry', id).lastHeartbeat = now
    /\ Get(registry', id).statusChangedAt = now

\* The input has no nfStatus, lastHeartbeat or statusChangedAt field of its own.
Plain(input) ==
    /\ input.ownStatus = << >>
    /\ input.ownLastHeartbeat = << >>
    /\ input.ownStatusChangedAt = << >>

C21_LiveProfileNeverDeleted ==
    [][\A i \in 1..Len(registry) :
          registry[i].nfStatus \in {"REGISTERED", "UNAVAILABLE"}
          => /\ Has(registry', registry[i].nfInstanceId)
             /\ (Purge /\ registry[i].nfStatus = "REGISTERED")
                => registry[i].nfInstanceId \in DiscoverIds(registry', NoFilter)]_vars

\* C22: an NF that is not an NRF and has a REGISTERED or UNAVAILABLE profile (made by the
\* delayed registration of createConnection) has a connection to an NRF; and an NF with no
\* connection to an NRF is not in the answer of discoverNFs.
C22_RegisteredImpliesLinked ==
    \A id \in NFIds :
        /\ (~IsNRF(id) /\ StatusOf(registry, id) \in {"REGISTERED", "UNAVAILABLE"})
           => HasNrfConnection(connections, id, nfStore)
        /\ ~HasNrfConnection(connections, id, nfStore)
           => id \notin DiscoverIds(registry, NoFilter)

\* The addresses of a and b have the same first three octets.
SameSubnet(a, b) == \A k \in 1..3 : NFIp(a)[k] = NFIp(b)[k]

\* C23: createConnection applies its checks in the order unknown end, same end twice,
\* different subnets, incompatible types, and gives the reason of the first that fails:
\* A = B is rejected as a self-link, and two NFs in different subnets are rejected for
\* the subnets whether or not their types are compatible.
C23_RejectionOrder ==
    [][\A a \in AllIds, b \in AllIds :
          CreateStep(a, b) =>
              LET reason == Rejection(a, b, nfStore)
                  known == a \in nfStore /\ b \in nfStore
              IN /\ reason # "" <=> lastCall'.result = "null"
                 /\ ~known => reason = "invalid-ids"
                 /\ (known /\ a = b) => reason = "self"
                 /\ (known /\ a # b /\ ~SameSubnet(a, b)) => reason = "subnet"
                 /\ (known /\ a # b /\ SameSubnet(a, b)
                     /\ ~(Listed(NFType(a), NFType(b)) \/ Listed(NFType(b), NFType(a))))
                    => reason = "types"]_vars

\* C23 witness: with a link stored, a link between two NFs in different subnets whose
\* types are also incompatible was rejected.
C23_Witness ==
    /\ lastCall.op = "createConnection"
    /\ lastCall.a = "smf-1" /\ lastCall.b = "dn-1"
    /\ ~SameSubnet("smf-1", "dn-1")
    /\ ~isConnectionValid(NFType("smf-1"), NFType("dn-1"))
    /\ lastCall.result = "null"
    /\ Len(connections) = 1

\* Exactly one of a and b is an NRF.
OneNrfEnd(a, b) == IsNRF(a) # IsNRF(b)

\* The end of a link between a and b that is not the NRF, when exactly one end is.
OtherEnd(a, b) == IF IsNRF(a) THEN b ELSE a

\* No registration or deregistration record is added and none is pending.
NoRegistryTraffic ==
    UNCHANGED <<registry, registrationHistory, registrationMessages,
                deregistrationHistory, deregistrationMessages, purgeTimers,
                advisoryTasks, regTimers>>

\* C24: a new connection schedules a registration only when exactly one of its ends is an
\* NRF, and then for the other end, source or target; the connection manager never
\* registers or deregisters an NRF; creating or deleting a connection with no NRF end
\* causes no registerNF and no deregisterNF.
C24_RegistersOnlyThePeer ==
    [][/\ \A a \in AllIds, b \in AllIds :
             (CreateStep(a, b) /\ lastCall'.result = "connection")
             => IF OneNrfEnd(a, b)
                THEN /\ regTimers' = regTimers \cup
                            {[nfId |-> OtherEnd(a, b), deadline |-> now + registrationDelay]}
                     /\ UNCHANGED <<registry, registrationHistory, deregistrationHistory>>
                ELSE NoRegistryTraffic
       /\ (Called("deleteConnection") /\ lastCall'.result = "deleted"
           /\ ~OneNrfEnd(lastCall'.a, lastCall'.b))
          => NoRegistryTraffic
       /\ \A x \in regTimers' : ~IsNRF(x.nfId)
       /\ \A i \in 1..Len(registry') : ~IsNRF(registry'[i].nfInstanceId)
       /\ \A i \in 1..Len(registrationHistory') :
              ~IsNRF(registrationHistory'[i].nfInstanceId)
       /\ \A i \in 1..Len(deregistrationHistory') :
              ~IsNRF(deregistrationHistory'[i].nfInstanceId)
       /\ registrationHistory' # registrationHistory
          => /\ lastCall'.op = "autoRegister"
             /\ Len(registrationHistory') = Len(registrationHistory) + 1
             /\ registrationHistory'[Len(registrationHistory')].nfInstanceId = lastCall'.a
             /\ \E x \in regTimers : x.nfId = lastCall'.a /\ x \notin regTimers']_vars

\* C24 witness: a connection whose source is the NRF has registered its target, and a
\* connection with no NRF end is stored with nothing registered for its ends.
C24_Witness ==
    /\ Len(connections) = 2
    /\ connections[1].sourceId = "nrf-1" /\ connections[1].targetId = "amf-1"
    /\ ~OneNrfEnd(connections[2].sourceId, connections[2].targetId)
    /\ Len(registry) = 1
    /\ StatusOf(registry, "amf-1") = "REGISTERED"
    /\ regTimers = {}

\* The step removes exactly the i-th connection and changes no other.
RemovesLink(i) ==
    /\ Len(connections') = Len(connections) - 1
    /\ \A j \in 1..Len(connections') :
           connections'[j] = IF j < i THEN connections[j] ELSE connections[j + 1]
    /\ \A j \in 1..Len(connections') : connections'[j].id # connections[i].id

\* Every profile other than the one of id is as it was.
OtherProfilesKept(id) ==
    /\ \A x \in AllIds \ {id} :
           /\ Has(registry', x) <=> Has(registry, x)
           /\ Has(registry, x) => Get(registry', x) = Get(registry, x)
    /\ \A x \in NFIds \ {id} : nfView'[x] = nfView[x]

\* C25: deleteConnection of a stored connection between an NRF and another NF X, both in
\* the inventory, deregisters X with the reason NRF_CONNECTION_REMOVED, stops X's
\* heartbeat task and removes the connection; for a connection with no NRF end it only
\* removes the connection, and the registry and every heartbeat task stay as they were.
\* In both cases the connection is gone afterwards and no other connection changes.
C25_DeleteLinkEffects ==
    [][(Called("deleteConnection") /\ lastCall'.result = "deleted")
       => \E i \in 1..Len(connections) :
             LET a == connections[i].sourceId
                 b == connections[i].targetId
                 X == OtherEnd(a, b)
             IN /\ lastCall'.a = a /\ lastCall'.b = b
                /\ RemovesLink(i)
                /\ UNCHANGED <<connCount, regTimers, nfStore>>
                /\ IF OneNrfEnd(a, b)
                   THEN (a \in nfStore /\ b \in nfStore)
                        => /\ nfView'[X].heartbeatIntervalId = 0
                           /\ nfView'[X].hbDeadline = 0
                           /\ OtherProfilesKept(X)
                           /\ Has(registry', X) <=> Has(registry, X)
                           /\ Has(registry, X)
                              => /\ Get(registry', X).nfStatus = "REMOVED"
                                 /\ Get(registry', X).deregistrationReason
                                        = "NRF_CONNECTION_REMOVED"
                                 /\ Get(registry', X).deregisteredAt = now
                                 /\ deregistrationHistory' # deregistrationHistory
                                 /\ nfView'[X].nrfStatus = "REMOVED"
                   ELSE UNCHANGED <<registryVars, nfView>>]_vars

\* C25 witness: the connection of amf-1 to the NRF was deleted after the heartbeat task of
\* amf-1 had renewed its profile; the profile is REMOVED and the task is stopped.
C25_Witness ==
    /\ lastCall.op = "deleteConnection"
    /\ lastCall.result = "deleted"
    /\ connections = << >>
    /\ StatusOf(registry, "amf-1") = "REMOVED"
    /\ Get(registry, "amf-1").deregistrationReason = "NRF_CONNECTION_REMOVED"
    /\ Get(registry, "amf-1").lastHeartbeat > Get(registry, "amf-1").registeredAt
    /\ nfView["amf-1"].heartbeatIntervalId = 0

\* C26: one pass of checkHeartbeatTimeouts makes UNAVAILABLE exactly the profiles that are
\* REGISTERED with more than heartbeatTimeout since lastHeartbeat; it leaves as they are
\* the profiles with at most heartbeatTimeout since lastHeartbeat and the REMOVED ones;
\* it never changes lastHeartbeat or registeredAt.
C26_SweepMarksExpired ==
    [][SweepStep =>
          /\ Len(registry') = Len(registry)
          /\ \A i \in 1..Len(registry) :
                LET p == registry[i]
                    q == registry'[i]
                    expired == now - p.lastHeartbeat > heartbeatTimeout
                IN /\ q.nfInstanceId = p.nfInstanceId
                   /\ (p.nfStatus # "UNAVAILABLE" /\ q.nfStatus = "UNAVAILABLE")
                      <=> (p.nfStatus = "REGISTERED" /\ expired)
                   /\ (p.nfStatus = "REGISTERED" /\ expired)
                      => q = [p EXCEPT !.nfStatus = "UNAVAILABLE", !.statusChangedAt = now]
                   /\ ~expired => q = p
                   /\ p.nfStatus = "REMOVED" => q = p
                   /\ q.lastHeartbeat = p.lastHeartbeat
                   /\ q.registeredAt = p.registeredAt]_vars

\* C26 witness: a pass has just marked one profile and left another, REGISTERED with
\* exactly heartbeatTimeout since its lastHeartbeat, as it was.
C26_Witness ==
    /\ lastCall.op = "checkHeartbeatTimeouts"
    /\ \E i, j \in 1..Len(registry) :
          /\ registry[i].nfStatus = "UNAVAILABLE"
          /\ registry[i].statusChangedAt = now
          /\ now - registry[i].lastHeartbeat > heartbeatTimeout
          /\ registry[j].nfStatus = "REGISTERED"
          /\ now - registry[j].lastHeartbeat = heartbeatTimeout

\* The ids of the profiles that are UNAVAILABLE with more than gracePeriod since
\* statusChangedAt.
GraceExpired ==
    {registry[i].nfInstanceId : i \in {j \in 1..Len(registry) :
        /\ registry[j].nfStatus = "UNAVAILABLE"
        /\ now - registry[j].statusChangedAt > gracePeriod}}

AdvisoryStep == lastCall'.op = "advisory" /\ advisoryTasks' # advisoryTasks

\* The advisory tasks, without their deadlines.
TaskKeys(tasks) == {<<x.nfInstanceId, x.oid>> : x \in tasks}

\* C28: after deregisterNF of an NF that is in the inventory an advisory task runs; each
\* run of its callback gives a notice while the NF is in the inventory and its profile is
\* not REGISTERED, and at the first run where the NF is gone from the inventory or its
\* profile is REGISTERED the task stops itself with no notice, then or later. No task is
\* started by deregisterNF of an NF that is not in the inventory.
C28_AdvisoryTask ==
    [][/\ AdvisoryStep
          => \E x \in advisoryTasks :
                /\ x.nfInstanceId = lastCall'.a
                /\ x.deadline <= now
                /\ IF /\ x.nfInstanceId \in nfStore
                      /\ StatusOf(registry, x.nfInstanceId) # "REGISTERED"
                   THEN /\ lastCall'.result = "notice"
                        /\ advisoryTasks' = (advisoryTasks \ {x}) \cup
                               {[x EXCEPT !.deadline = x.deadline + advisoryInterval]}
                   ELSE /\ lastCall'.result = "stopped"
                        /\ advisoryTasks' = advisoryTasks \ {x}
       /\ \A id \in AllIds :
             (DeregisterNF(id) /\ Has(registry, id))
             => IF id \in nfStore
                THEN <<id, Get(registry, id).oid>> \in TaskKeys(advisoryTasks')
                ELSE advisoryTasks' = advisoryTasks
       \* a task, once stopped, comes back only through a deregisterNF
       /\ \A k \in TaskKeys(advisoryTasks') \ TaskKeys(advisoryTasks) :
             /\ k[1] \in nfStore
             /\ StatusOf(registry', k[1]) = "REMOVED"
             /\ Get(registry', k[1]).deregisteredAt = now
             /\ Len(deregistrationHistory') > Len(deregistrationHistory)]_vars

\* C28 witness: the advisory task of amf-1 has just stopped itself because amf-1 was
\* registered again.
C28_Witness ==
    /\ lastCall.op = "advisory"
    /\ lastCall.a = "amf-1"
    /\ lastCall.result = "stopped"
    /\ "amf-1" \in nfStore
    /\ StatusOf(registry, "amf-1") = "REGISTERED"
    /\ advisoryTasks = {}

\* C29: at any time at most one advisory task is active for an id, also when the id is
\* registered again and deregistered again before the first task's next run.
C29_OneAdvisoryTaskPerId ==
    \A id \in AllIds : Cardinality(AdvisoryTasksOf(advisoryTasks, id)) <= 1

\* C30: at most one heartbeat task is active for an NF, whatever connections are created
\* and deleted: a running interval always has its id on the NF object, where the guard
\* of startNFHeartbeat sees it, and a start while it runs leaves it as it is; a task is
\* started only by the delayed registration, for an NF that is in the inventory, is not
\* an NRF and has a connection to an NRF at that moment.
C30_OneHeartbeatTaskPerId ==
    [][\A id \in NFIds :
          /\ nfView'[id].hbDeadline # 0 => nfView'[id].heartbeatIntervalId # 0
          /\ (nfView[id].hbDeadline = 0 /\ nfView'[id].hbDeadline # 0)
             => /\ lastCall'.op = "autoRegister" /\ lastCall'.a = id
                /\ nfView[id].heartbeatIntervalId = 0
                /\ nfView'[id].hbDeadline = now + nfHeartbeatInterval
                /\ id \in nfStore
                /\ ~IsNRF(id)
                /\ HasNrfConnection(connections, id, nfStore)
          /\ (nfView[id].hbDeadline # 0 /\ regTimers' # regTimers
              /\ lastCall'.op = "autoRegister" /\ lastCall'.a = id)
             => /\ nfView'[id].hbDeadline = nfView[id].hbDeadline
                /\ nfView'[id].heartbeatIntervalId = nfView[id].heartbeatIntervalId]_vars

\* C30 witness: amf-1 has two connections to the NRF and the delayed registration of the
\* second has just run while the heartbeat task started by the first was active.
C30_Witness ==
    /\ lastCall.op = "autoRegister"
    /\ lastCall.a = "amf-1"
    /\ Len(connections) = 2
    /\ \A i \in 1..2 : OneNrfEnd(connections[i].sourceId, connections[i].targetId)
                       /\ OtherEnd(connections[i].sourceId, connections[i].targetId) = "amf-1"
    /\ regTimers = {}
    /\ nfView["amf-1"].heartbeatIntervalId # 0
    /\ nfView["amf-1"].hbDeadline # 0
    /\ nfView["amf-1"].hbDeadline < now + nfHeartbeatInterval
    /\ Len(registrationHistory) = 2

\* The delayed registration of a connection of x to an NRF has run and the connection is
\* still stored.
AutoRegisteredLink(x) ==
    \E i \in 1..Len(connections) :
        /\ OneNrfEnd(connections[i].sourceId, connections[i].targetId)
        /\ OtherEnd(connections[i].sourceId, connections[i].targetId) = x
        /\ connections[i].sourceId \in nfStore /\ connections[i].targetId \in nfStore
        /\ connections[i].createdAt + registrationDelay <= now
        /\ \A t \in regTimers :
               ~(t.nfId = x /\ t.deadline = connections[i].createdAt + registrationDelay)

\* C31: after the delayed registration of an NF X whose connection to the NRF is still
\* stored, a heartbeat task of X is active, due within nfHeartbeatInterval, until that
\* connection is deleted or X leaves the inventory.
C31_LinkedMeansRenewing ==
    \A x \in NFIds :
        (x \in nfStore /\ AutoRegisteredLink(x))
        => /\ nfView[x].heartbeatIntervalId # 0
           /\ nfView[x].hbDeadline # 0
           /\ nfView[x].hbDeadline <= now + nfHeartbeatInterval

\* C32: with a heartbeat every nfHeartbeatInterval, a heartbeatTimeout of twice that and
\* a sweep every sweepInterval, an NF whose heartbeat task is active and whose profile is
\* REGISTERED is not made UNAVAILABLE by the sweep: at every pass the time since its
\* lastHeartbeat is at most heartbeatTimeout.
C32_RenewingNeverExpires ==
    [][SweepStep =>
          \A id \in NFIds :
              (/\ id \in nfStore
               /\ nfView[id].heartbeatIntervalId # 0 /\ nfView[id].hbDeadline # 0
               /\ StatusOf(registry, id) = "REGISTERED")
              => /\ now - Get(registry, id).lastHeartbeat <= heartbeatTimeout
                 /\ StatusOf(registry', id) = "REGISTERED"]_vars

\* C32 witness: a pass has just left REGISTERED a profile registered more than
\* heartbeatTimeout ago, whose heartbeat task is active.
C32_Witness ==
    /\ lastCall.op = "checkHeartbeatTimeouts"
    /\ \E id \in NFIds :
          /\ nfView[id].hbDeadline # 0
          /\ StatusOf(registry, id) = "REGISTERED"
          /\ now - Get(registry, id).registeredAt > heartbeatTimeout
          /\ now - Get(registry, id).lastHeartbeat <= nfHeartbeatInterval

\* The elements of a sequence, which has none of them twice.
Elements(q) == {q[i] : i \in 1..Len(q)}
NoRepeats(q) == \A i, j \in 1..Len(q) : q[i] = q[j] => i = j

\* C33: getValidTargets(X) is exactly the NFs Y # X of the inventory whose type is
\* compatible with X's; getValidTargetsInSameSubnet(X) is exactly those that are also in
\* X's subnet, which are the Y for which createConnection(X, Y) is not rejected; X is in
\* neither, and an X that is not in the inventory gives the empty array.
C33_ValidTargets ==
    \A x \in AllIds :
        LET all == getValidTargets(x, nfStore)
            same == getValidTargetsInSameSubnet(x, nfStore)
        IN /\ NoRepeats(all) /\ NoRepeats(same)
           /\ x \notin Elements(all) /\ x \notin Elements(same)
           /\ x \notin nfStore => all = << >> /\ same = << >>
           /\ x \in nfStore
              => /\ Elements(all) =
                       {y \in nfStore \ {x} :
                           Listed(NFType(x), NFType(y)) \/ Listed(NFType(y), NFType(x))}
                 /\ Elements(same) = {y \in Elements(all) : SameSubnet(x, y)}
                 /\ Elements(same) = {y \in AllIds : Rejection(x, y, nfStore) = ""}

\* C33 witness: amf-1 has left the inventory: it has no targets and is no target of the
\* NRF, and smf-1 has a compatible NF outside its subnet.
C33_Witness ==
    /\ "amf-1" \notin nfStore
    /\ getValidTargets("amf-1", nfStore) = << >>
    /\ "amf-1" \notin Elements(getValidTargets("nrf-1", nfStore))
    /\ "upf-1" \in Elements(getValidTargetsInSameSubnet("nrf-1", nfStore))
    /\ "upf-1" \in Elements(getValidTargets("smf-1", nfStore))
    /\ getValidTargetsInSameSubnet("smf-1", nfStore) = << >>

\* The type tag is no key of the compatibility table and is in none of its lists.
UnknownType(t) ==
    /\ t \notin ValidConnectionKeys
    /\ \A k \in ValidConnectionKeys : ~Includes(validConnections(k), t)

\* isConnectionValid is true exactly for the pairs the table lists in one direction or the
\* other, and false as soon as one tag is unknown.
TypeVerdictFromTable ==
    \A ta \in TypeTags, tb \in TypeTags :
        /\ isConnectionValid(ta, tb) <=> (Listed(ta, tb) \/ Listed(tb, ta))
        /\ (UnknownType(ta) \/ UnknownType(tb)) => ~isConnectionValid(ta, tb)

LabelFromTable(ta, tb) ==
    IF <<ta, tb>> \in InterfaceKeys THEN interfaces(<<ta, tb>>)
    ELSE IF <<tb, ta>> \in InterfaceKeys THEN interfaces(<<tb, ta>>)
    ELSE "SBI"

\* C35: getInterfaceName(a, b) is the table entry of (a, b) if there is one, else the entry
\* of (b, a) if there is one, else 'SBI', and it is the same for (a, b) and (b, a); so the
\* label of every stored connection is the label of its end types in either order.
C35_LabelSymmetric ==
    /\ \A ta \in TypeTags, tb \in TypeTags :
          /\ getInterfaceName(ta, tb) = LabelFromTable(ta, tb)
          /\ getInterfaceName(ta, tb) = getInterfaceName(tb, ta)
          /\ (<<ta, tb>> \notin InterfaceKeys /\ <<tb, ta>> \notin InterfaceKeys)
                => getInterfaceName(ta, tb) = "SBI"
    /\ \A i \in 1..Len(connections) :
          LET ts == NFType(connections[i].sourceId)
              tt == NFType(connections[i].targetId)
          IN  /\ connections[i].interfaceName = LabelFromTable(ts, tt)
              /\ connections[i].interfaceName = LabelFromTable(tt, ts)

\* C35 witness: a connection NRF -> AMF, whose label is found under the reversed pair, and a
\* connection AMF -> NRF are stored with the same label.
C35_Witness ==
    /\ Len(connections) = 2
    /\ connections[1].sourceId = "nrf-1" /\ connections[1].targetId = "amf-1"
    /\ connections[2].sourceId = "amf-1" /\ connections[2].targetId = "nrf-1"
    /\ <<"NRF", "AMF">> \notin InterfaceKeys
    /\ connections[1].interfaceName = "Nnrf_NFManagement"
    /\ connections[2].interfaceName = connections[1].interfaceName

\* The profile offers a service whose serviceName or serviceInstanceId is name.
OffersService(p, name) ==
    \E i \in 1..Len(p.services) : p.services[i][1] = name \/ p.services[i][2] = name

\* C36: with a service filter, discoverNFs returns exactly the REGISTERED profiles (of the
\* asked type, if one is asked) that offer a service whose serviceName or
\* serviceInstanceId equals the filter; a REGISTERED profile with no services, or with no
\* matching service, is not returned.
C36_ServiceFilterExact ==
    \A q \in Queries :
        q.service # "" =>
            DiscoverIds(registry, q) =
                {registry[i].nfInstanceId : i \in
                    {j \in 1..Len(registry) :
                        /\ registry[j].nfStatus = "REGISTERED"
                        /\ q.nfType = "" \/ registry[j].nfType = q.nfType
                        /\ OffersService(registry[j], q.service)}}

\* The connection that the step has appended to the collection.
StoredLink == connections'[Len(connections')]

\* No type is admissible with itself.
NoSelfAdmissibleType == \A t \in TypeTags : ~isConnectionValid(t, t)

\* C37: a connection, at the moment createConnection stores it, joins two distinct NFs of
\* the inventory that are in one subnet and of admissible types; no type is admissible
\* with itself, so its ends are of different types and never two NRFs.
C37_StoredLinkWellFormed ==
    [][Len(connections') > Len(connections) =>
        /\ NoSelfAdmissibleType
        /\ lastCall'.op = "createConnection"
        /\ Len(connections') = Len(connections) + 1
        /\ StoredLink.sourceId = lastCall'.a /\ StoredLink.targetId = lastCall'.b
        /\ StoredLink.sourceId \in nfStore /\ StoredLink.targetId \in nfStore
        /\ StoredLink.sourceId # StoredLink.targetId
        /\ SameSubnet(StoredLink.sourceId, StoredLink.targetId)
        /\ isConnectionValid(NFType(StoredLink.sourceId), NFType(StoredLink.targetId))
        /\ NFType(StoredLink.sourceId) # NFType(StoredLink.targetId)
        /\ ~(IsNRF(StoredLink.sourceId) /\ IsNRF(StoredLink.targetId))]_vars

\* C37 witness: two connections to the NRF are stored, the second one by the last call.
C37_Witness ==
    /\ Len(connections) = 2
    /\ connections[1].sourceId = "amf-1" /\ connections[1].targetId = "nrf-1"
    /\ connections[2].sourceId = "upf-1" /\ connections[2].targetId = "nrf-1"
    /\ lastCall.op = "createConnection" /\ lastCall.a = "upf-1"
    /\ lastCall.result = "connection"
    /\ {"amf-1", "upf-1", "nrf-1"} \subseteq nfStore

\* C38: every pair of types that isConnectionValid admits has an entry of its own in the
\* interface table, in one order or the other: getInterfaceName gives 'SBI' only for
\* pairs that isConnectionValid rejects, and no stored connection carries 'SBI'.
C38_NoDefaultLabelOnLinks ==
    /\ \A ta \in TypeTags, tb \in TypeTags :
          /\ isConnectionValid(ta, tb)
                => <<ta, tb>> \in InterfaceKeys \/ <<tb, ta>> \in InterfaceKeys
          /\ getInterfaceName(ta, tb) = "SBI" => ~isConnectionValid(ta, tb)
    /\ \A key \in InterfaceKeys : interfaces(key) # "SBI"
    /\ \A i \in 1..Len(connections) : connections[i].interfaceName # "SBI"

\* C38 witness: the last call stored a second connection; the one between UPF and ext-dn
\* carries N6 and the one between UPF and NRF carries Nnrf_NFManagement.
C38_Witness ==
    /\ Len(connections) = 2
    /\ connections[1].sourceId = "upf-1" /\ connections[1].targetId = "dn-1"
    /\ connections[1].interfaceName = "N6"
    /\ connections[2].sourceId = "nrf-1" /\ connections[2].targetId = "upf-1"
    /\ connections[2].interfaceName = "Nnrf_NFManagement"
    /\ lastCall.op = "createConnection" /\ lastCall.result = "connection"

C40_OneSweepTask ==
    [][/\ isMonitoring <=> monitorIntervalId # 0
       /\ isMonitoring' <=> monitorIntervalId' # 0
       /\ Called("startHeartbeatMonitor")
             => IF isMonitoring THEN UNCHANGED monitorVars
                ELSE isMonitoring' /\ monitorIntervalId' = now + sweepInterval
       /\ Called("stopHeartbeatMonitor")
             => IF isMonitoring THEN ~isMonitoring' /\ monitorIntervalId' = 0
                ELSE UNCHANGED monitorVars
       /\ isMonitoring' # isMonitoring
             => Called("startHeartbeatMonitor") \/ Called("stopHeartbeatMonitor")
       /\ Called("registerNF") => UNCHANGED monitorVars
       /\ (/\ monitorIntervalId' # monitorIntervalId
           /\ ~Called("startHeartbeatMonitor") /\ ~Called("stopHeartbeatMonitor"))
             => /\ isMonitoring /\ isMonitoring'
                /\ monitorIntervalId = now
                /\ monitorIntervalId' = monitorIntervalId + sweepInterval
       /\ (now' # now /\ isMonitoring) => now' <= monitorIntervalId]_vars

\* C40 witness: the sweep had marked a profile UNAVAILABLE, and the last call stopped the
\* monitor.
C40_Witness ==
    /\ lastCall.op = "stopHeartbeatMonitor"
    /\ calls = 2
    /\ ~isMonitoring /\ monitorIntervalId = 0
    /\ \E i \in 1..Len(registry) : registry[i].nfStatus = "UNAVAILABLE"

====
